---- MODULE Spec2Model ----
(***************************************************************************)
(* Model of the time-tracker server handlers (server/src/handlers) over    *)
(* the six relational tables of server/src/db/schema.ts.                   *)
(*                                                                         *)
(* A table is the set of its rows, a row is a record.  A nullable column   *)
(* holds Null (<<>>) or <<v>>.  A handler input is a record that has a     *)
(* field exactly when the caller provided it, so `x !== undefined` is      *)
(* Has(input, "x").  Timestamps are integers (milliseconds).               *)
(*                                                                         *)
(* A handler runs in one action where requests are served one at a time.   *)
(* Where requests overlap, `calls` holds the requests in flight, each with *)
(* its position and the values it has read, and a step is one store        *)
(* operation of one call together with the code up to the next one.        *)
(***************************************************************************)
EXTENDS Integers, Sequences, FiniteSets, TLC

VARIABLES users, organizations, subscriptions, customers, projects,
          timeEntries, nextId, now, last, pre, calls

tables == <<users, organizations, subscriptions, customers, projects, timeEntries>>
vars == <<users, organizations, subscriptions, customers, projects,
          timeEntries, nextId, now, last, pre, calls>>

\* ------------------------------------------------------------------ bounds
MaxDay == 14
BulkEntries == 11
OrgCustomers == 6
MaxOrganizations == 2
MaxSubscriptions == 2
MaxCustomers == 2
MaxProjects == 2
MaxTimeEntries == 2
MaxClock == 1
MaxLimit == 2
MaxCalls == 3

\* ------------------------------------------------------- program constants
FreeMaxCustomers == 3
FreeMaxProjects == 3
ProMaxCustomers == 50
ProMaxProjects == 100
Unlimited == 0 - 1
MsPerMinute == 1000 * 60
MsPerHour == 60 * MsPerMinute
MsPerDay == 24 * MsPerHour
RecentLimit == 10
TopLimit == 5

\* ----------------------------------------------------------------- values
Null == <<>>
Some(v) == <<v>>
Val(n) == n[1]
Has(input, f) == f \in DOMAIN input

\* JavaScript `x || null` on an optional string: undefined and "" give null
OrNull(input, f) == IF Has(input, f) /\ input[f] # "" THEN Some(input[f]) ELSE Null

\* JavaScript `x ?? d` on an optional field
Coalesce(input, f, d) == IF Has(input, f) THEN input[f] ELSE d

\* JavaScript `x || null` on an optional id or date
RefOrNull(input, f) == IF Has(input, f) THEN input[f] ELSE Null

Ids(table) == {r.id : r \in table}
Row(table, id) == CHOOSE r \in table : r.id = id

\* ------------------------------------------------------------- the store
\* a column without its foreign key
RefUnchecked(table, ref) == TRUE

\* foreign keys of schema.ts: a referencing column names an existing row
RefOk(table, ref) == ref = Null \/ Val(ref) \in Ids(table)

CountCustomers(orgId) == Cardinality({c \in customers : c.organization_id = orgId})
CountProjects(orgId) == Cardinality({p \in projects : p.organization_id = orgId})

\* the last request served: the handler, its input, the acting user (0 when the
\* handler takes none), how it ended, the id of the row it wrote and the id of
\* the subscription row it read (0 when none)
\* what getDashboardStats returns when no row matches
NoStats ==
    [totalTimeToday |-> 0, totalTimeThisWeek |-> 0, totalTimeThisMonth |-> 0,
     totalCustomers |-> 0, totalProjects |-> 0, recentEntries |-> <<>>,
     topCustomersByTime |-> <<>>, topProjectsByTime |-> <<>>]

\* `again` marks a delete whose request is the one served just before it;
\* `stats` is the record getDashboardStats returned, `rows` the rows
\* getTimeEntries returned
NoResult ==
    [op |-> "none", input |-> [id |-> 0], by |-> 0, outcome |-> "none", id |-> 0,
     sub |-> 0, again |-> FALSE, stats |-> NoStats, rows |-> <<>>]
Result(op, input, by, outcome, id, sub) ==
    [op |-> op, input |-> input, by |-> by, outcome |-> outcome, id |-> id, sub |-> sub,
     again |-> FALSE, stats |-> NoStats, rows |-> <<>>]
DeleteResult(op, id, outcome) ==
    [Result(op, [id |-> id], 0, outcome, 0, 0)
        EXCEPT !.again = (last.op = op /\ last.input = [id |-> id])]

\* the tables as a request finds them
Snapshot ==
    [users |-> users, organizations |-> organizations, subscriptions |-> subscriptions,
     customers |-> customers, projects |-> projects, timeEntries |-> timeEntries]

Init ==
    /\ users = {}
    /\ organizations = {}
    /\ subscriptions = {}
    /\ customers = {}
    /\ projects = {}
    /\ timeEntries = {}
    /\ nextId = [user |-> 1, organization |-> 1, subscription |-> 1,
                 customer |-> 1, project |-> 1, timeEntry |-> 1]
    /\ now = 0
    /\ last = NoResult
    /\ pre = [users |-> {}, organizations |-> {}, subscriptions |-> {},
              customers |-> {}, projects |-> {}, timeEntries |-> {}]
    /\ calls = <<>>

\* the clock the store and `new Date()` read
Tick ==
    /\ now < MaxClock
    /\ now' = now + 1
    /\ pre' = Snapshot
    /\ last' = [NoResult EXCEPT !.op = "tick"]
    /\ UNCHANGED <<tables, nextId, calls>>

\* -------------------------------------------------------------- createUser
\* the organization named after the user alone
BareOrganizationName(name) == name

DefaultOrganizationName(name) == name \o "'s Organization"

DefaultSubscription(id, userId) ==
    [id |-> id, user_id |-> userId, plan |-> "free", status |-> "active",
     max_customers |-> FreeMaxCustomers, max_projects |-> FreeMaxProjects,
     expires_at |-> Null, created_at |-> now, updated_at |-> now]

\* the email column without its unique constraint
EmailNeverTaken(email) == FALSE

\* `email: text('email').notNull().unique()`: the insert is rejected when a
\* user row holds the email
EmailTaken(email) == \E u \in users : u.email = email

\* fault = 0: every store write succeeds; fault = 2 (3): the store rejects the
\* second (third) insert, the handler rethrows and the earlier writes stay.
CreateUser(input, fault) ==
    LET userId == nextId.user
        organizationId == nextId.organization
        subscriptionId == nextId.subscription
        user == [id |-> userId, email |-> input.email, name |-> input.name,
                 created_at |-> now, updated_at |-> now]
        org == [id |-> organizationId, name |-> DefaultOrganizationName(input.name),
                owner_id |-> userId, created_at |-> now, updated_at |-> now]
    IN  IF EmailTaken(input.email)
        THEN /\ pre' = Snapshot
             /\ last' = Result("createUser", input, 0, "conflict", 0, 0)
             /\ UNCHANGED <<tables, nextId, now, calls>>
        ELSE /\ organizationId <= MaxOrganizations
             /\ subscriptionId <= MaxSubscriptions
             /\ users' = users \cup {user}
             /\ organizations' = IF fault = 2 THEN organizations
                                 ELSE organizations \cup {org}
             /\ subscriptions' = IF fault \in {2, 3} THEN subscriptions
                                 ELSE subscriptions \cup
                                      {DefaultSubscription(subscriptionId, userId)}
             /\ nextId' = [nextId EXCEPT !.user = @ + 1, !.organization = @ + 1,
                                         !.subscription = @ + 1]
             /\ pre' = Snapshot
             /\ last' = Result("createUser", input, 0,
                               IF fault = 0 THEN "ok" ELSE "store_error", userId, 0)
             /\ UNCHANGED <<customers, projects, timeEntries, now, calls>>

\* ------------------------------------------------------ createOrganization
CreateOrganization(input) ==
    IF input.owner_id \notin Ids(users)
    THEN /\ pre' = Snapshot
         /\ last' = Result("createOrganization", input, 0, "user_not_found", 0, 0)
         /\ UNCHANGED <<tables, nextId, now, calls>>
    ELSE /\ nextId.organization <= MaxOrganizations
         /\ organizations' = organizations \cup
                {[id |-> nextId.organization, name |-> input.name,
                  owner_id |-> input.owner_id, created_at |-> now, updated_at |-> now]}
         /\ nextId' = [nextId EXCEPT !.organization = @ + 1]
         /\ pre' = Snapshot
         /\ last' = Result("createOrganization", input, 0, "ok", nextId.organization, 0)
         /\ UNCHANGED <<users, subscriptions, customers, projects, timeEntries, now, calls>>

\* ------------------------------------------------------ createSubscription
\* the limits of every plan taken from the free plan
DefaultLimitsFree(plan) ==
    [customers |-> FreeMaxCustomers, projects |-> FreeMaxProjects]

DefaultLimits(plan) ==
    CASE plan = "free" -> [customers |-> FreeMaxCustomers, projects |-> FreeMaxProjects]
      [] plan = "pro" -> [customers |-> ProMaxCustomers, projects |-> ProMaxProjects]
      [] plan = "enterprise" -> [customers |-> Unlimited, projects |-> Unlimited]

CreateSubscription(input) ==
    IF input.user_id \notin Ids(users)
    THEN /\ pre' = Snapshot
         /\ last' = Result("createSubscription", input, 0, "user_not_found", 0, 0)
         /\ UNCHANGED <<tables, nextId, now, calls>>
    ELSE LET limits == DefaultLimits(input.plan)
         IN /\ nextId.subscription <= MaxSubscriptions
            /\ subscriptions' = subscriptions \cup
                 {[id |-> nextId.subscription, user_id |-> input.user_id,
                   plan |-> input.plan, status |-> "active",
                   max_customers |-> Coalesce(input, "max_customers", limits.customers),
                   max_projects |-> Coalesce(input, "max_projects", limits.projects),
                   expires_at |-> Coalesce(input, "expires_at", Null),
                   created_at |-> now, updated_at |-> now]}
            /\ nextId' = [nextId EXCEPT !.subscription = @ + 1]
            /\ pre' = Snapshot
            /\ last' = Result("createSubscription", input, 0, "ok", nextId.subscription, 0)
            /\ UNCHANGED <<users, organizations, customers, projects, timeEntries, now, calls>>

\* ------------------------------------------------------ updateSubscription
\* an empty result taken for a row
NotFoundNever(result) == FALSE

\* `result.length === 0`: the statement matched no row
NotFound(result) == result = {}

\* the SET clause without `updated_at: new Date()`
PatchWithoutRefresh(row, input, fields) ==
    [f \in DOMAIN row |-> IF f \in fields /\ Has(input, f) THEN input[f] ELSE row[f]]

\* the SET clause: a column takes the input's value when the input has it
Patch(row, input, fields) ==
    [f \in DOMAIN row |-> IF f \in fields /\ Has(input, f) THEN input[f]
                          ELSE IF f = "updated_at" THEN now ELSE row[f]]

UpdateSubscription(input) ==
    LET matched == {r \in subscriptions : r.id = input.id}
        result == {Patch(r, input, {"plan", "status", "max_customers",
                                    "max_projects", "expires_at"}) : r \in matched}
    IN  /\ subscriptions' = (subscriptions \ matched) \cup result
        /\ pre' = Snapshot
        /\ last' = IF NotFound(result)
                   THEN Result("updateSubscription", input, 0, "not_found", 0, 0)
                   ELSE Result("updateSubscription", input, 0, "ok", input.id, 0)
        /\ UNCHANGED <<users, organizations, customers, projects, timeEntries,
                       nextId, now, calls>>

\* ------------------------------------------------------ updateOrganization
UpdateOrganization(input) ==
    LET matched == {r \in organizations : r.id = input.id}
        result == {Patch(r, input, {"name"}) : r \in matched}
    IN  /\ organizations' = (organizations \ matched) \cup result
        /\ pre' = Snapshot
        /\ last' = IF NotFound(result)
                   THEN Result("updateOrganization", input, 0, "not_found", 0, 0)
                   ELSE Result("updateOrganization", input, 0, "ok", input.id, 0)
        /\ UNCHANGED <<users, subscriptions, customers, projects, timeEntries,
                       nextId, now, calls>>

\* ---------------------------------------------------------- createCustomer
\* the limit check that lets every request through
LimitNeverReached(existing, max) == FALSE

\* the comparison off by one
LimitReachedStrict(existing, max) == existing > max

LimitReached(existing, max) == existing >= max

\* the limit check, then the status check
SubscriptionCheckLimitFirst(subscription, existing, max) ==
    IF LimitReached(existing, max) THEN "limit"
    ELSE IF subscription.status # "active" THEN "not_active"
    ELSE "pass"

\* the status check, then the limit check
SubscriptionCheck(subscription, existing, max) ==
    IF subscription.status # "active" THEN "not_active"
    ELSE IF LimitReached(existing, max) THEN "limit"
    ELSE "pass"

\* the subscription rows of the requesting user
CreatorSubscriptions(rows, organization, createdBy) ==
    {s \in rows : s.user_id = createdBy}

\* `where(eq(subscriptionsTable.user_id, organization[0].owner_id))`
OwnerSubscriptions(rows, organization, createdBy) ==
    {s \in rows : s.user_id = organization.owner_id}

CreateCustomerWith(input, createdBy, subscription) ==
    LET customerId == nextId.customer
        existingCustomers == CountCustomers(input.organization_id)
        check == SubscriptionCheck(subscription, existingCustomers,
                                   subscription.max_customers)
    IN  IF check # "pass"
        THEN /\ pre' = Snapshot
             /\ last' = Result("createCustomer", input, createdBy, check, 0, subscription.id)
             /\ UNCHANGED <<tables, nextId, now, calls>>
        ELSE IF createdBy \notin Ids(users)
        THEN /\ pre' = Snapshot
             /\ last' = Result("createCustomer", input, createdBy, "store_error", 0, subscription.id)
             /\ UNCHANGED <<tables, nextId, now, calls>>
        ELSE /\ customerId <= MaxCustomers
             /\ customers' = customers \cup
                    {[id |-> customerId, name |-> input.name,
                      email |-> OrNull(input, "email"), phone |-> OrNull(input, "phone"),
                      address |-> OrNull(input, "address"),
                      organization_id |-> input.organization_id,
                      created_by |-> createdBy, created_at |-> now, updated_at |-> now]}
             /\ nextId' = [nextId EXCEPT !.customer = @ + 1]
             /\ pre' = Snapshot
             /\ last' = Result("createCustomer", input, createdBy, "ok", customerId, subscription.id)
             /\ UNCHANGED <<users, organizations, subscriptions, projects,
                            timeEntries, now, calls>>

\* `.limit(1)` without ORDER BY: the store returns any one of the owner's rows
CreateCustomer(input, createdBy) ==
    IF input.organization_id \notin Ids(organizations)
    THEN /\ pre' = Snapshot
         /\ last' = Result("createCustomer", input, createdBy, "organization_not_found", 0, 0)
         /\ UNCHANGED <<tables, nextId, now, calls>>
    ELSE LET organization == Row(organizations, input.organization_id)
             subscription == OwnerSubscriptions(subscriptions, organization, createdBy)
         IN IF subscription = {}
            THEN /\ pre' = Snapshot
                 /\ last' = Result("createCustomer", input, createdBy, "no_subscription", 0, 0)
                 /\ UNCHANGED <<tables, nextId, now, calls>>
            ELSE \E s \in subscription : CreateCustomerWith(input, createdBy, s)

\* ----------------------------------------------------------- createProject
\* the lookup by id alone
CustomerAnywhere(customerId, organizationId) ==
    \E c \in customers : c.id = customerId

CustomerInOrganization(customerId, organizationId) ==
    \E c \in customers : c.id = customerId /\ c.organization_id = organizationId

CreateProjectWith(input, createdBy, subscription) ==
    LET projectId == nextId.project
        check == SubscriptionCheck(subscription, CountProjects(input.organization_id),
                                   subscription.max_projects)
    IN  IF check # "pass"
        THEN /\ pre' = Snapshot
             /\ last' = Result("createProject", input, createdBy, check, 0, subscription.id)
             /\ UNCHANGED <<tables, nextId, now, calls>>
        ELSE IF createdBy \notin Ids(users)
        THEN /\ pre' = Snapshot
             /\ last' = Result("createProject", input, createdBy, "store_error", 0, subscription.id)
             /\ UNCHANGED <<tables, nextId, now, calls>>
        ELSE /\ projectId <= MaxProjects
             /\ projects' = projects \cup
                    {[id |-> projectId, name |-> input.name,
                      description |-> OrNull(input, "description"),
                      customer_id |-> input.customer_id,
                      organization_id |-> input.organization_id,
                      created_by |-> createdBy, is_active |-> TRUE,
                      created_at |-> now, updated_at |-> now]}
             /\ nextId' = [nextId EXCEPT !.project = @ + 1]
             /\ pre' = Snapshot
             /\ last' = Result("createProject", input, createdBy, "ok", projectId, subscription.id)
             /\ UNCHANGED <<users, organizations, subscriptions, customers,
                            timeEntries, now, calls>>

CreateProject(input, createdBy) ==
    IF input.organization_id \notin Ids(organizations)
    THEN /\ pre' = Snapshot
         /\ last' = Result("createProject", input, createdBy, "organization_not_found", 0, 0)
         /\ UNCHANGED <<tables, nextId, now, calls>>
    ELSE IF ~CustomerInOrganization(input.customer_id, input.organization_id)
    THEN /\ pre' = Snapshot
         /\ last' = Result("createProject", input, createdBy, "customer_not_found", 0, 0)
         /\ UNCHANGED <<tables, nextId, now, calls>>
    ELSE LET organization == Row(organizations, input.organization_id)
             subscription == OwnerSubscriptions(subscriptions, organization, createdBy)
         IN IF subscription = {}
            THEN /\ pre' = Snapshot
                 /\ last' = Result("createProject", input, createdBy, "no_subscription", 0, 0)
                 /\ UNCHANGED <<tables, nextId, now, calls>>
            ELSE \E s \in subscription : CreateProjectWith(input, createdBy, s)

\* how createCustomer and createProject end on the tables t, for each row the
\* store may return for the subscription
Ending(t, subscription, existing, max, createdBy) ==
    LET check == SubscriptionCheck(subscription, existing, max)
    IN  IF check # "pass" THEN check
        ELSE IF createdBy \notin Ids(t.users) THEN "store_error"
        ELSE "ok"

CreateCustomerOutcomes(t, input, createdBy) ==
    IF input.organization_id \notin Ids(t.organizations) THEN {"organization_not_found"}
    ELSE LET organization == Row(t.organizations, input.organization_id)
             subscription == OwnerSubscriptions(t.subscriptions, organization, createdBy)
             existingCustomers ==
                 Cardinality({c \in t.customers : c.organization_id = input.organization_id})
         IN  IF subscription = {} THEN {"no_subscription"}
             ELSE {Ending(t, s, existingCustomers, s.max_customers, createdBy) :
                        s \in subscription}

CreateProjectOutcomes(t, input, createdBy) ==
    IF input.organization_id \notin Ids(t.organizations) THEN {"organization_not_found"}
    ELSE IF ~\E c \in t.customers : /\ c.id = input.customer_id
                                    /\ c.organization_id = input.organization_id
    THEN {"customer_not_found"}
    ELSE LET organization == Row(t.organizations, input.organization_id)
             subscription == OwnerSubscriptions(t.subscriptions, organization, createdBy)
             existingProjects ==
                 Cardinality({q \in t.projects : q.organization_id = input.organization_id})
         IN  IF subscription = {} THEN {"no_subscription"}
             ELSE {Ending(t, s, existingProjects, s.max_projects, createdBy) :
                        s \in subscription}

\* --------------------------------------------------------- createTimeEntry
\* Math.floor((end - start) / (1000 * 60)); \div rounds toward minus infinity
DurationMinutes(startTime, endTime) == (endTime - startTime) \div MsPerMinute

CreateTimeEntry(input, userId) ==
    LET endTime == RefOrNull(input, "end_time")
        durationMinutes == IF endTime # Null
                           THEN Some(DurationMinutes(input.start_time, Val(endTime)))
                           ELSE Null
        row == [id |-> nextId.timeEntry, user_id |-> userId,
                customer_id |-> RefOrNull(input, "customer_id"),
                project_id |-> RefOrNull(input, "project_id"),
                description |-> input.description,
                start_time |-> input.start_time, end_time |-> endTime,
                duration_minutes |-> durationMinutes,
                tags |-> Coalesce(input, "tags", <<>>),
                created_at |-> now, updated_at |-> now]
    IN  IF userId \notin Ids(users) \/ ~RefOk(customers, row.customer_id)
           \/ ~RefOk(projects, row.project_id)
        THEN /\ pre' = Snapshot
             /\ last' = Result("createTimeEntry", input, userId, "store_error", 0, 0)
             /\ UNCHANGED <<tables, nextId, now, calls>>
        ELSE /\ nextId.timeEntry <= MaxTimeEntries
             /\ timeEntries' = timeEntries \cup {row}
             /\ nextId' = [nextId EXCEPT !.timeEntry = @ + 1]
             /\ pre' = Snapshot
             /\ last' = Result("createTimeEntry", input, userId, "ok", row.id, 0)
             /\ UNCHANGED <<users, organizations, subscriptions, customers,
                            projects, now, calls>>

\* --------------------------------------------------------- updateTimeEntry
\* the duration recomputed from the stored start_time only
UpdatedDurationStaleStart(existingEntry, input) ==
    LET endTime == IF Has(input, "end_time") THEN input.end_time
                   ELSE existingEntry.end_time
    IN  IF endTime # Null
        THEN [set |-> TRUE,
              value |-> Some(DurationMinutes(existingEntry.start_time, Val(endTime)))]
        ELSE IF Has(input, "end_time") /\ input.end_time = Null
        THEN [set |-> TRUE, value |-> Null]
        ELSE [set |-> FALSE, value |-> Null]

\* an explicit null end_time that leaves the stored duration alone
UpdatedDurationKeptOnNull(existingEntry, input) ==
    LET startTime == IF Has(input, "start_time") THEN input.start_time
                     ELSE existingEntry.start_time
        endTime == IF Has(input, "end_time") THEN input.end_time
                   ELSE existingEntry.end_time
    IN  IF endTime # Null
        THEN [set |-> TRUE, value |-> Some(DurationMinutes(startTime, Val(endTime)))]
        ELSE [set |-> FALSE, value |-> Null]

\* the duration_minutes the handler puts in updateValues; Null when it puts none
UpdatedDuration(existingEntry, input) ==
    LET startTime == IF Has(input, "start_time") THEN input.start_time
                     ELSE existingEntry.start_time
        endTime == IF Has(input, "end_time") THEN input.end_time
                   ELSE existingEntry.end_time
    IN  IF endTime # Null
        THEN [set |-> TRUE, value |-> Some(DurationMinutes(startTime, Val(endTime)))]
        ELSE IF Has(input, "end_time") /\ input.end_time = Null
        THEN [set |-> TRUE, value |-> Null]
        ELSE [set |-> FALSE, value |-> Null]

\* the row the UPDATE leaves in place of existingEntry
UpdatedEntry(existingEntry, input) ==
    LET patched == Patch(existingEntry, input,
                         {"customer_id", "project_id", "description",
                          "start_time", "end_time", "tags"})
        duration == UpdatedDuration(existingEntry, input)
    IN  IF duration.set
        THEN [patched EXCEPT !.duration_minutes = duration.value]
        ELSE patched

UpdateTimeEntry(input) ==
    LET existingEntries == {e \in timeEntries : e.id = input.id}
        result == {UpdatedEntry(e, input) : e \in existingEntries}
    IN  IF NotFound(existingEntries)
        THEN /\ pre' = Snapshot
             /\ last' = Result("updateTimeEntry", input, 0, "not_found", 0, 0)
             /\ UNCHANGED <<tables, nextId, now, calls>>
        ELSE IF \E new \in result : \/ ~RefOk(customers, new.customer_id)
                                    \/ ~RefOk(projects, new.project_id)
        THEN /\ pre' = Snapshot
             /\ last' = Result("updateTimeEntry", input, 0, "store_error", 0, 0)
             /\ UNCHANGED <<tables, nextId, now, calls>>
        ELSE /\ timeEntries' = (timeEntries \ existingEntries) \cup result
             /\ pre' = Snapshot
             /\ last' = Result("updateTimeEntry", input, 0, "ok", input.id, 0)
             /\ UNCHANGED <<users, organizations, subscriptions, customers,
                            projects, nextId, now, calls>>

\* ---------------------------------------------------------- deleteCustomer
\* the WHERE clause matching every entry that has a customer
WithoutEntriesOfAnyCustomer(entries, customerId) ==
    {e \in entries : e.customer_id = Null}

\* DELETE FROM time_entries WHERE customer_id = customerId
WithoutEntriesOfCustomer(entries, customerId) ==
    {e \in entries : e.customer_id # Some(customerId)}

\* the WHERE clause matching every entry that has a project
WithoutEntriesOfAnyProject(entries, projectId) ==
    {e \in entries : e.project_id = Null}

\* DELETE FROM time_entries WHERE project_id = projectId
WithoutEntriesOfProject(entries, projectId) ==
    {e \in entries : e.project_id # Some(projectId)}

\* the loop left out
WithoutEntriesOfProjectsSkipped(entries, projectIds) == entries

\* the loop over projectIds: one delete per project of the customer
WithoutEntriesOfProjects(entries, projectIds) ==
    {e \in entries : \A projectId \in projectIds : e.project_id # Some(projectId)}

\* SELECT id FROM projects WHERE customer_id = customerId
CustomerProjects(customerId) == {p.id : p \in {q \in projects : q.customer_id = customerId}}

\* DELETE FROM projects WHERE customer_id = customerId
WithoutProjectsOfCustomer(projs, customerId) ==
    {p \in projs : p.customer_id # customerId}

\* a store that lets a customer go while rows still reference it
CustomerNeverReferenced(entries, projs, customerId) == FALSE

\* a row cannot be deleted while another row references it (schema.ts references)
ProjectReferenced(entries, projectId) == \E e \in entries : e.project_id = Some(projectId)
CustomerReferenced(entries, projs, customerId) ==
    \/ \E e \in entries : e.customer_id = Some(customerId)
    \/ \E p \in projs : p.customer_id = customerId

\* the handler reporting success whatever the store returned
DeletedAlways(result) == "true"

\* `result.length > 0`, `(result.rowCount ?? 0) > 0`: whether a row was deleted
Deleted(result) == IF Cardinality(result) > 0 THEN "true" ELSE "false"

\* The statements run one after another outside any transaction: when the
\* store rejects one, the handler rethrows and the earlier deletes stay.
DeleteCustomer(customerId) ==
    LET entries1 == WithoutEntriesOfCustomer(timeEntries, customerId)
        projectIds == CustomerProjects(customerId)
        entries2 == WithoutEntriesOfProjects(entries1, projectIds)
        projects3 == WithoutProjectsOfCustomer(projects, customerId)
        result == {c \in customers : c.id = customerId}
    IN  IF \E projectId \in projectIds : ProjectReferenced(entries2, projectId)
        THEN /\ timeEntries' = entries2
             /\ pre' = Snapshot
             /\ last' = DeleteResult("deleteCustomer", customerId, "store_error")
             /\ UNCHANGED <<users, organizations, subscriptions, customers, projects,
                            nextId, now, calls>>
        ELSE IF CustomerReferenced(entries2, projects3, customerId)
        THEN /\ timeEntries' = entries2
             /\ projects' = projects3
             /\ pre' = Snapshot
             /\ last' = DeleteResult("deleteCustomer", customerId, "store_error")
             /\ UNCHANGED <<users, organizations, subscriptions, customers, nextId, now, calls>>
        ELSE /\ timeEntries' = entries2
             /\ projects' = projects3
             /\ customers' = customers \ result
             /\ pre' = Snapshot
             /\ last' = DeleteResult("deleteCustomer", customerId,
                               Deleted(result))
             /\ UNCHANGED <<users, organizations, subscriptions, nextId, now, calls>>

\* ----------------------------------------------------------- deleteProject
DeleteProject(projectId) ==
    LET entries1 == WithoutEntriesOfProject(timeEntries, projectId)
        result == {p \in projects : p.id = projectId}
    IN  IF ProjectReferenced(entries1, projectId)
        THEN /\ timeEntries' = entries1
             /\ pre' = Snapshot
             /\ last' = DeleteResult("deleteProject", projectId, "store_error")
             /\ UNCHANGED <<users, organizations, subscriptions, customers, projects,
                            nextId, now, calls>>
        ELSE /\ timeEntries' = entries1
             /\ projects' = projects \ result
             /\ pre' = Snapshot
             /\ last' = DeleteResult("deleteProject", projectId,
                               Deleted(result))
             /\ UNCHANGED <<users, organizations, subscriptions, customers, nextId, now, calls>>

\* --------------------------------------------------------- deleteTimeEntry
DeleteTimeEntry(timeEntryId) ==
    LET result == {e \in timeEntries : e.id = timeEntryId}
    IN  /\ timeEntries' = timeEntries \ result
        /\ pre' = Snapshot
        /\ last' = DeleteResult("deleteTimeEntry", timeEntryId,
                               Deleted(result))
        /\ UNCHANGED <<users, organizations, subscriptions, customers, projects,
                       nextId, now, calls>>

\* ------------------------------------------------------- getDashboardStats
\* The calendar of `new Date(...)`, with local time taken as UTC: time 0 is
\* Thursday 1 January 1970 00:00, and the dates modelled lie in December 1969
\* and January 1970.
\* Date.getDay(): 0 is Sunday
GetDay(t) == ((t \div MsPerDay) + 4) % 7

\* Date.getDate(): the day of the month
GetDate(t) == LET d == t \div MsPerDay IN IF d >= 0 THEN d + 1 ELSE d + 32

\* the week taken to start on Monday
StartOfWeekMonday(t) ==
    LET today == (t \div MsPerDay) * MsPerDay
    IN  today - ((GetDay(today) + 6) % 7) * MsPerDay

\* new Date(now.getFullYear(), now.getMonth(), now.getDate())
StartOfToday(t) == (t \div MsPerDay) * MsPerDay

\* the week counted back from the current time of day instead of from midnight
StartOfWeekFromNow(t) == t - GetDay(StartOfToday(t)) * MsPerDay

\* startOfWeek.setDate(startOfToday.getDate() - startOfToday.getDay())
StartOfWeek(t) == StartOfToday(t) - GetDay(StartOfToday(t)) * MsPerDay

\* new Date(now.getFullYear(), now.getMonth(), 1)
StartOfMonth(t) == StartOfToday(t) - (GetDate(t) - 1) * MsPerDay

\* sum(duration_minutes) over rows whose duration is not null
RECURSIVE SumMinutes(_)
SumMinutes(rows) ==
    IF rows = {} THEN 0
    ELSE LET e == CHOOSE x \in rows : TRUE
         IN  Val(e.duration_minutes) + SumMinutes(rows \ {e})

\* the window test that forgets the upper end
InWindowOpen(e, userId, windowStart) ==
    /\ e.user_id = userId
    /\ e.start_time >= windowStart
    /\ e.duration_minutes # Null

\* WHERE user_id = userId AND start_time >= windowStart AND start_time <= now
\* AND duration_minutes IS NOT NULL
InWindow(e, userId, windowStart) ==
    /\ e.user_id = userId
    /\ e.start_time >= windowStart
    /\ e.start_time <= now
    /\ e.duration_minutes # Null

\* `result[0]?.totalMinutes ? parseInt(...) : 0`: SUM over no row is null
TotalTime(userId, windowStart) ==
    SumMinutes({e \in timeEntries : InWindow(e, userId, windowStart)})

\* ORDER BY f DESC and no more: every order the store may return the rows in
RECURSIVE OrderedDesc(_, _)
OrderedDesc(rows, f) ==
    IF rows = {} THEN {<<>>}
    ELSE LET top == {x \in rows : \A y \in rows : x[f] >= y[f]}
         IN  UNION {{<<x>> \o rest : rest \in OrderedDesc(rows \ {x}, f)} : x \in top}

\* LIMIT without the ordering applied first
LimitAny(seqs, n) == {SubSeq(s, Len(s) - (IF Len(s) < n THEN Len(s) ELSE n) + 1, Len(s)) : s \in seqs}

\* LIMIT n
Limit(seqs, n) == {SubSeq(s, 1, IF Len(s) < n THEN Len(s) ELSE n) : s \in seqs}

\* SELECT * FROM time_entries WHERE user_id = userId ORDER BY start_time DESC LIMIT 10
RecentEntries(userId) ==
    Limit(OrderedDesc({e \in timeEntries : e.user_id = userId}, "start_time"),
          RecentLimit)

\* the join without the organization filter
TopCustomerRowsAnyOrganization(userId, organizationId) ==
    {[customer_id |-> c.id, customer_name |-> c.name,
      total_minutes |-> SumMinutes({e \in timeEntries :
                            /\ InWindow(e, userId, StartOfMonth(now))
                            /\ e.customer_id = Some(c.id)})] :
        c \in {x \in customers :
                 \E e \in timeEntries : /\ InWindow(e, userId, StartOfMonth(now))
                                        /\ e.customer_id = Some(x.id)}}

\* time_entries INNER JOIN customers, grouped by customer, summed
TopCustomerRows(userId, organizationId) ==
    {[customer_id |-> c.id, customer_name |-> c.name,
      total_minutes |-> SumMinutes({e \in timeEntries :
                            /\ InWindow(e, userId, StartOfMonth(now))
                            /\ e.customer_id = Some(c.id)})] :
        c \in {x \in customers :
                 /\ x.organization_id = organizationId
                 /\ \E e \in timeEntries : /\ InWindow(e, userId, StartOfMonth(now))
                                           /\ e.customer_id = Some(x.id)}}

\* time_entries INNER JOIN projects, grouped by project, summed
TopProjectRows(userId, organizationId) ==
    {[project_id |-> p.id, project_name |-> p.name,
      total_minutes |-> SumMinutes({e \in timeEntries :
                            /\ InWindow(e, userId, StartOfMonth(now))
                            /\ e.project_id = Some(p.id)})] :
        p \in {x \in projects :
                 /\ x.organization_id = organizationId
                 /\ \E e \in timeEntries : /\ InWindow(e, userId, StartOfMonth(now))
                                           /\ e.project_id = Some(x.id)}}

\* a read: the tables stay, the result is one of those the store's ordering
\* of equal keys allows
GetDashboardStats(userId, organizationId) ==
    \E recentEntries \in RecentEntries(userId),
       topCustomersByTime \in Limit(OrderedDesc(TopCustomerRows(userId, organizationId),
                                                "total_minutes"), TopLimit),
       topProjectsByTime \in Limit(OrderedDesc(TopProjectRows(userId, organizationId),
                                               "total_minutes"), TopLimit) :
        /\ pre' = Snapshot
        /\ last' = [Result("getDashboardStats",
                           [user_id |-> userId, organization_id |-> organizationId],
                           0, "ok", 0, 0)
                    EXCEPT !.stats =
                      [totalTimeToday |-> TotalTime(userId, StartOfToday(now)),
                       totalTimeThisWeek |-> TotalTime(userId, StartOfWeek(now)),
                       totalTimeThisMonth |-> TotalTime(userId, StartOfMonth(now)),
                       totalCustomers |-> CountCustomers(organizationId),
                       totalProjects |-> CountProjects(organizationId),
                       recentEntries |-> recentEntries,
                       topCustomersByTime |-> topCustomersByTime,
                       topProjectsByTime |-> topProjectsByTime]]
        /\ UNCHANGED <<tables, nextId, now, calls>>

\* ------------------------------------------------------------ getTimeEntries
\* A tag is a text, held as the sequence of its characters; the characters the
\* store's array syntax gives a meaning to
Quote == "\""
Comma == ","
OpenBrace == "{"
CloseBrace == "}"

\* the empty string: z.string() admits it as an id filter, no row has it as id
EmptyId == 0

\* `if (input.user_id)`: JavaScript takes the empty string for false
Truthy(id) == id # EmptyId

RECURSIVE Join(_, _)
Join(parts, sep) ==
    IF parts = <<>> THEN <<>>
    ELSE IF Len(parts) = 1 THEN parts[1]
    ELSE parts[1] \o <<sep>> \o Join(Tail(parts), sep)

\* `{${input.tags.map(tag => `"${tag}"`).join(',')}}`: each tag between double
\* quotes as it is, commas between, braces around
FormatTags(tags) ==
    <<OpenBrace>> \o Join([i \in 1 .. Len(tags) |-> <<Quote>> \o tags[i] \o <<Quote>>],
                          Comma) \o <<CloseBrace>>

Malformed == [ok |-> FALSE, elements |-> {}]

\* the store reading the elements of an array text from position i on: an
\* element opens with a quote and runs to the next quote, then a comma brings
\* the next element and a brace at the end of the text closes the array
RECURSIVE ElementsFrom(_, _, _)
ElementsFrom(text, i, elements) ==
    IF i > Len(text) \/ text[i] # Quote THEN Malformed
    ELSE LET closing == {j \in i + 1 .. Len(text) : text[j] = Quote}
         IN  IF closing = {} THEN Malformed
             ELSE LET close == CHOOSE j \in closing : \A k \in closing : j <= k
                      element == SubSeq(text, i + 1, close - 1)
                      after == close + 1
                  IN  IF after > Len(text) THEN Malformed
                      ELSE IF text[after] = CloseBrace
                      THEN IF after = Len(text)
                           THEN [ok |-> TRUE, elements |-> elements \cup {element}]
                           ELSE Malformed
                      ELSE IF text[after] = Comma
                      THEN ElementsFrom(text, after + 1, elements \cup {element})
                      ELSE Malformed

\* `${formattedTags}::text[]`: the store parses the text it is handed
TextArray(text) ==
    IF Len(text) < 2 \/ text[1] # OpenBrace THEN Malformed
    ELSE IF text = <<OpenBrace, CloseBrace>> THEN [ok |-> TRUE, elements |-> {}]
    ELSE ElementsFrom(text, 2, {})

\* `tags && array`: the two arrays have an element in common
Overlaps(tags, elements) == \E i \in 1 .. Len(tags) : tags[i] \in elements

\* `input.tags && input.tags.length > 0`
TagsGiven(input) == Has(input, "tags") /\ Len(input.tags) > 0

\* the conditions pushed for the filters the input carries; the base condition
\* `id IS NOT NULL` holds of every row
Matches(e, input) ==
    /\ (Has(input, "user_id") /\ Truthy(input.user_id)) => e.user_id = input.user_id
    /\ (Has(input, "customer_id") /\ Truthy(input.customer_id))
            => e.customer_id = Some(input.customer_id)
    /\ (Has(input, "project_id") /\ Truthy(input.project_id))
            => e.project_id = Some(input.project_id)
    /\ Has(input, "start_date") => e.start_time >= input.start_date
    /\ Has(input, "end_date") => e.start_time <= input.end_date
    /\ TagsGiven(input) => Overlaps(e.tags, TextArray(FormatTags(input.tags)).elements)

\* ORDER BY f and no more: every order the store may return the rows in
RECURSIVE OrderedAsc(_, _)
OrderedAsc(rows, f) ==
    IF rows = {} THEN {<<>>}
    ELSE LET first == {x \in rows : \A y \in rows : x[f] <= y[f]}
         IN  UNION {{<<x>> \o rest : rest \in OrderedAsc(rows \ {x}, f)} : x \in first}

\* a read: the tables stay; the store rejects an array text it cannot parse
GetTimeEntries(input) ==
    /\ pre' = Snapshot
    /\ IF TagsGiven(input) /\ ~TextArray(FormatTags(input.tags)).ok
       THEN last' = Result("getTimeEntries", input, 0, "store_error", 0, 0)
       ELSE \E results \in OrderedAsc({e \in timeEntries : Matches(e, input)},
                                      "start_time") :
                last' = [Result("getTimeEntries", input, 0, "ok", 0, 0)
                            EXCEPT !.rows = results]
    /\ UNCHANGED <<tables, nextId, now, calls>>


\* ------------------------------------------------------ overlapping requests
\* A call in flight: the handler, its input, the acting user, the store
\* operation it issues next, the values it has read so far, and once it is
\* done how it ended and the id of the row it wrote
NothingRead == <<>>

Call(op, input, by, pc) ==
    [op |-> op, input |-> input, by |-> by, pc |-> pc, got |-> NothingRead,
     outcome |-> "none", id |-> 0]

Running(i, op) == calls[i].op = op /\ calls[i].pc # "done"

Advance(i, pc, got) == calls' = [calls EXCEPT ![i].pc = pc, ![i].got = got]

Finish(i, outcome, id) ==
    calls' = [calls EXCEPT ![i].pc = "done", ![i].outcome = outcome, ![i].id = id]

\* createCustomer, one store operation a step: the organization, the owner's
\* subscription (then the status check), the count (then the limit check),
\* the insert
CreateCustomerStep(i) ==
    LET call == calls[i]
        input == call.input
    IN  /\ Running(i, "createCustomer")
        /\ CASE call.pc = "organization" ->
                  /\ IF input.organization_id \notin Ids(organizations)
                     THEN Finish(i, "organization_not_found", 0)
                     ELSE Advance(i, "subscription",
                              [organization |-> Row(organizations, input.organization_id)])
                  /\ UNCHANGED <<tables, nextId>>
             [] call.pc = "subscription" ->
                  LET subscription ==
                          OwnerSubscriptions(subscriptions, call.got.organization, call.by)
                  IN  /\ IF subscription = {}
                         THEN Finish(i, "no_subscription", 0)
                         ELSE \E s \in subscription :
                                IF s.status # "active"
                                THEN Finish(i, "not_active", 0)
                                ELSE Advance(i, "count", [subscription |-> s])
                      /\ UNCHANGED <<tables, nextId>>
             [] call.pc = "count" ->
                  LET existingCustomers == CountCustomers(input.organization_id)
                  IN  /\ IF LimitReached(existingCustomers,
                                         call.got.subscription.max_customers)
                         THEN Finish(i, "limit", 0)
                         ELSE Advance(i, "insert", call.got)
                      /\ UNCHANGED <<tables, nextId>>
             [] call.pc = "insert" ->
                  IF call.by \notin Ids(users)
                        \/ input.organization_id \notin Ids(organizations)
                  THEN /\ Finish(i, "store_error", 0)
                       /\ UNCHANGED <<tables, nextId>>
                  ELSE /\ customers' = customers \cup
                            {[id |-> nextId.customer, name |-> input.name,
                              email |-> OrNull(input, "email"),
                              phone |-> OrNull(input, "phone"),
                              address |-> OrNull(input, "address"),
                              organization_id |-> input.organization_id,
                              created_by |-> call.by,
                              created_at |-> now, updated_at |-> now]}
                       /\ nextId' = [nextId EXCEPT !.customer = @ + 1]
                       /\ Finish(i, "ok", nextId.customer)
                       /\ UNCHANGED <<users, organizations, subscriptions, projects,
                                      timeEntries>>
        /\ UNCHANGED <<now, last, pre>>

\* createProject, one store operation a step: the organization, the customer,
\* the owner's subscription (then the status check), the count (then the limit
\* check), the insert
CreateProjectStep(i) ==
    LET call == calls[i]
        input == call.input
    IN  /\ Running(i, "createProject")
        /\ CASE call.pc = "organization" ->
                  /\ IF input.organization_id \notin Ids(organizations)
                     THEN Finish(i, "organization_not_found", 0)
                     ELSE Advance(i, "customer",
                              [organization |-> Row(organizations, input.organization_id)])
                  /\ UNCHANGED <<tables, nextId>>
             [] call.pc = "customer" ->
                  /\ IF ~CustomerInOrganization(input.customer_id, input.organization_id)
                     THEN Finish(i, "customer_not_found", 0)
                     ELSE Advance(i, "subscription", call.got)
                  /\ UNCHANGED <<tables, nextId>>
             [] call.pc = "subscription" ->
                  LET subscription ==
                          OwnerSubscriptions(subscriptions, call.got.organization, call.by)
                  IN  /\ IF subscription = {}
                         THEN Finish(i, "no_subscription", 0)
                         ELSE \E s \in subscription :
                                IF s.status # "active"
                                THEN Finish(i, "not_active", 0)
                                ELSE Advance(i, "count", [subscription |-> s])
                      /\ UNCHANGED <<tables, nextId>>
             [] call.pc = "count" ->
                  LET existingProjects == CountProjects(input.organization_id)
                  IN  /\ IF LimitReached(existingProjects,
                                         call.got.subscription.max_projects)
                         THEN Finish(i, "limit", 0)
                         ELSE Advance(i, "insert", call.got)
                      /\ UNCHANGED <<tables, nextId>>
             [] call.pc = "insert" ->
                  IF call.by \notin Ids(users)
                        \/ input.organization_id \notin Ids(organizations)
                        \/ ~RefOk(customers, Some(input.customer_id))
                  THEN /\ Finish(i, "store_error", 0)
                       /\ UNCHANGED <<tables, nextId>>
                  ELSE /\ projects' = projects \cup
                            {[id |-> nextId.project, name |-> input.name,
                              description |-> OrNull(input, "description"),
                              customer_id |-> input.customer_id,
                              organization_id |-> input.organization_id,
                              created_by |-> call.by, is_active |-> TRUE,
                              created_at |-> now, updated_at |-> now]}
                       /\ nextId' = [nextId EXCEPT !.project = @ + 1]
                       /\ Finish(i, "ok", nextId.project)
                       /\ UNCHANGED <<users, organizations, subscriptions, customers,
                                      timeEntries>>
        /\ UNCHANGED <<now, last, pre>>

\* createUser, one insert a step: the three ids are drawn first, then the
\* user, the organization and the subscription are written by three statements
\* outside any transaction; the store may reject any of them, the rows written
\* before stay
CreateUserStep(i) ==
    LET call == calls[i]
        input == call.input
    IN  /\ Running(i, "createUser")
        /\ CASE call.pc = "user" ->
                  IF EmailTaken(input.email)
                  THEN /\ Finish(i, "conflict", 0)
                       /\ UNCHANGED <<tables, nextId>>
                  ELSE /\ users' = users \cup
                            {[id |-> nextId.user, email |-> input.email,
                              name |-> input.name, created_at |-> now, updated_at |-> now]}
                       /\ nextId' = [nextId EXCEPT !.user = @ + 1, !.organization = @ + 1,
                                                   !.subscription = @ + 1]
                       /\ Advance(i, "organization",
                                  [userId |-> nextId.user,
                                   organizationId |-> nextId.organization,
                                   subscriptionId |-> nextId.subscription])
                       /\ UNCHANGED <<organizations, subscriptions, customers, projects,
                                      timeEntries>>
             [] call.pc = "organization" ->
                  \/ /\ organizations' = organizations \cup
                            {[id |-> call.got.organizationId,
                              name |-> DefaultOrganizationName(input.name),
                              owner_id |-> call.got.userId,
                              created_at |-> now, updated_at |-> now]}
                     /\ Advance(i, "subscription", call.got)
                     /\ UNCHANGED <<users, subscriptions, customers, projects,
                                    timeEntries, nextId>>
                  \/ /\ Finish(i, "store_error", 0)
                     /\ UNCHANGED <<tables, nextId>>
             [] call.pc = "subscription" ->
                  \/ /\ subscriptions' = subscriptions \cup
                            {DefaultSubscription(call.got.subscriptionId, call.got.userId)}
                     /\ Finish(i, "ok", call.got.userId)
                     /\ UNCHANGED <<users, organizations, customers, projects,
                                    timeEntries, nextId>>
                  \/ /\ Finish(i, "store_error", 0)
                     /\ UNCHANGED <<tables, nextId>>
        /\ UNCHANGED <<now, last, pre>>

\* createTimeEntry: one insert
CreateTimeEntryStep(i) ==
    LET call == calls[i]
        input == call.input
        endTime == RefOrNull(input, "end_time")
        durationMinutes == IF endTime # Null
                           THEN Some(DurationMinutes(input.start_time, Val(endTime)))
                           ELSE Null
        row == [id |-> nextId.timeEntry, user_id |-> call.by,
                customer_id |-> RefOrNull(input, "customer_id"),
                project_id |-> RefOrNull(input, "project_id"),
                description |-> input.description,
                start_time |-> input.start_time, end_time |-> endTime,
                duration_minutes |-> durationMinutes,
                tags |-> Coalesce(input, "tags", <<>>),
                created_at |-> now, updated_at |-> now]
    IN  /\ Running(i, "createTimeEntry")
        /\ IF call.by \notin Ids(users) \/ ~RefOk(customers, row.customer_id)
              \/ ~RefOk(projects, row.project_id)
           THEN /\ Finish(i, "store_error", 0)
                /\ UNCHANGED <<tables, nextId>>
           ELSE /\ timeEntries' = timeEntries \cup {row}
                /\ nextId' = [nextId EXCEPT !.timeEntry = @ + 1]
                /\ Finish(i, "ok", row.id)
                /\ UNCHANGED <<users, organizations, subscriptions, customers, projects>>
        /\ UNCHANGED <<now, last, pre>>

\* deleteCustomer, one statement a step: the entries of the customer, the
\* select of its projects, one delete of entries per project selected (in the
\* order the store returned them), the projects, the customer.  A delete the
\* store rejects ends the call; what was deleted before stays deleted.
DeleteCustomerStep(i) ==
    LET call == calls[i]
        customerId == call.input.id
    IN  /\ Running(i, "deleteCustomer")
        /\ CASE call.pc = "entriesOfCustomer" ->
                  /\ timeEntries' = WithoutEntriesOfCustomer(timeEntries, customerId)
                  /\ Advance(i, "customerProjects", call.got)
                  /\ UNCHANGED <<users, organizations, subscriptions, customers,
                                 projects, nextId>>
             [] call.pc = "customerProjects" ->
                  LET projectIds == CustomerProjects(customerId)
                  IN  /\ Advance(i, IF projectIds = {} THEN "projects"
                                    ELSE "entriesOfProject",
                                 [projectIds |-> projectIds, remaining |-> projectIds])
                      /\ UNCHANGED <<tables, nextId>>
             [] call.pc = "entriesOfProject" ->
                  \E projectId \in call.got.remaining :
                      LET rest == call.got.remaining \ {projectId}
                      IN  /\ timeEntries' = WithoutEntriesOfProject(timeEntries, projectId)
                          /\ Advance(i, IF rest = {} THEN "projects"
                                        ELSE "entriesOfProject",
                                     [call.got EXCEPT !.remaining = rest])
                          /\ UNCHANGED <<users, organizations, subscriptions, customers,
                                         projects, nextId>>
             [] call.pc = "projects" ->
                  IF \E projectId \in CustomerProjects(customerId) :
                        ProjectReferenced(timeEntries, projectId)
                  THEN /\ Finish(i, "store_error", 0)
                       /\ UNCHANGED <<tables, nextId>>
                  ELSE /\ projects' = WithoutProjectsOfCustomer(projects, customerId)
                       /\ Advance(i, "customer", call.got)
                       /\ UNCHANGED <<users, organizations, subscriptions, customers,
                                      timeEntries, nextId>>
             [] call.pc = "customer" ->
                  LET result == {c \in customers : c.id = customerId}
                  IN  IF CustomerReferenced(timeEntries, projects, customerId)
                      THEN /\ Finish(i, "store_error", 0)
                           /\ UNCHANGED <<tables, nextId>>
                      ELSE /\ customers' = customers \ result
                           /\ Finish(i, Deleted(result), 0)
                           /\ UNCHANGED <<users, organizations, subscriptions, projects,
                                          timeEntries, nextId>>
        /\ UNCHANGED <<now, last, pre>>

\* the UPDATE of updateTimeEntry on the row it finds: the columns the input
\* has, and the duration computed from the row read before
UpdateValuesOn(row, existingEntry, input) ==
    LET patched == Patch(row, input,
                         {"customer_id", "project_id", "description",
                          "start_time", "end_time", "tags"})
        duration == UpdatedDuration(existingEntry, input)
    IN  IF duration.set
        THEN [patched EXCEPT !.duration_minutes = duration.value]
        ELSE patched

\* updateTimeEntry, one statement a step: the select of the existing row, the
\* update
UpdateTimeEntryStep(i) ==
    LET call == calls[i]
        input == call.input
    IN  /\ Running(i, "updateTimeEntry")
        /\ CASE call.pc = "select" ->
                  LET existingEntries == {e \in timeEntries : e.id = input.id}
                  IN  /\ IF NotFound(existingEntries)
                         THEN Finish(i, "not_found", 0)
                         ELSE \E existingEntry \in existingEntries :
                                Advance(i, "update", [existingEntry |-> existingEntry])
                      /\ UNCHANGED <<tables, nextId>>
             [] call.pc = "update" ->
                  LET matched == {e \in timeEntries : e.id = input.id}
                      result == {UpdateValuesOn(e, call.got.existingEntry, input) :
                                    e \in matched}
                  IN  IF \E new \in result : \/ ~RefOk(customers, new.customer_id)
                                              \/ ~RefOk(projects, new.project_id)
                      THEN /\ Finish(i, "store_error", 0)
                           /\ UNCHANGED <<tables, nextId>>
                      ELSE /\ timeEntries' = (timeEntries \ matched) \cup result
                           /\ Finish(i, "ok", input.id)
                           /\ UNCHANGED <<users, organizations, subscriptions, customers,
                                          projects, nextId>>
        /\ UNCHANGED <<now, last, pre>>

\* ------------------------------------------------------------ the requests
Emails == {"a@x"}
Names == {"Ann"}
UserIds == 1 .. Cardinality(Emails) + 1
OrganizationIds == 1 .. MaxOrganizations
SubscriptionIds == 1 .. MaxSubscriptions
CustomerIds == 1 .. MaxCustomers
ProjectIds == 1 .. MaxProjects
TimeEntryIds == 1 .. MaxTimeEntries

\* requests of the limit-enforcement runs: sign-up (the third write may fail),
\* subscription changes, customer and project creation, customer deletion
LimitUserInputs == [email : Emails, name : Names]
CreateOrganizationInputs == [name : {"Lab"}, owner_id : UserIds]
CreateSubscriptionInputs == [user_id : UserIds, plan : {"enterprise"}]
CreateCustomerInputs == [name : {"Acme"}, organization_id : OrganizationIds]
CreateProjectInputs ==
    [name : {"Site"}, customer_id : CustomerIds, organization_id : OrganizationIds]
\* with sign-up as the only source of organizations, organization ids run with
\* the user ids: that of the one sign-up, and one that names no organization
LimitCustomerInputs == [name : {"Acme"}, organization_id : UserIds]
LimitProjectInputs ==
    [name : {"Site"}, customer_id : CustomerIds, organization_id : UserIds]
UpdateSubscriptionInputs ==
    [id : SubscriptionIds, max_customers : {1}, max_projects : {1}]
        \cup [id : SubscriptionIds, status : {"cancelled"}]

Next ==
    \/ \E input \in LimitUserInputs, fault \in {0, 3} : CreateUser(input, fault)
    \/ \E input \in CreateSubscriptionInputs : CreateSubscription(input)
    \/ \E input \in UpdateSubscriptionInputs : UpdateSubscription(input)
    \/ \E input \in LimitCustomerInputs, createdBy \in UserIds :
            CreateCustomer(input, createdBy)
    \/ \E input \in LimitProjectInputs, createdBy \in UserIds :
            CreateProject(input, createdBy)

Spec == Init /\ [][Next]_vars

\* requests of the cascading-deletion runs
CascadeTimeEntryInputs ==
    [description : {"work"}, start_time : {0},
     customer_id : {Null} \cup {Some(c) : c \in CustomerIds},
     project_id : {Null} \cup {Some(p) : p \in ProjectIds}]

NextCascade ==
    \/ \E input \in LimitUserInputs : CreateUser(input, 0)
    \/ \E input \in LimitCustomerInputs, createdBy \in UserIds :
            CreateCustomer(input, createdBy)
    \/ \E input \in LimitProjectInputs, createdBy \in UserIds :
            CreateProject(input, createdBy)
    \/ \E input \in CascadeTimeEntryInputs, userId \in UserIds :
            CreateTimeEntry(input, userId)
    \/ \E customerId \in CustomerIds : DeleteCustomer(customerId)
    \/ \E projectId \in ProjectIds : DeleteProject(projectId)
    \/ \E timeEntryId \in TimeEntryIds : DeleteTimeEntry(timeEntryId)

SpecCascade == Init /\ [][NextCascade]_vars

\* requests of the runs with several organizations
NextOrganizations ==
    \/ \E input \in LimitUserInputs : CreateUser(input, 0)
    \/ \E input \in CreateOrganizationInputs : CreateOrganization(input)
    \/ \E input \in CreateCustomerInputs, createdBy \in UserIds :
            CreateCustomer(input, createdBy)
    \/ \E input \in CreateProjectInputs, createdBy \in UserIds :
            CreateProject(input, createdBy)
    \/ \E customerId \in CustomerIds : DeleteCustomer(customerId)
    \/ \E projectId \in ProjectIds : DeleteProject(projectId)

SpecOrganizations == Init /\ [][NextOrganizations]_vars

\* requests of the duration runs
TimedEntryInputs ==
    [description : {"work"}, start_time : {0}]
        \cup [description : {"work"}, start_time : {0}, end_time : {Null, Some(90000)}]
UpdateTimeEntryInputs ==
    [id : TimeEntryIds, start_time : {30000}]
        \cup [id : TimeEntryIds, end_time : {Null, Some(0)}]
        \cup [id : TimeEntryIds, start_time : {0}, end_time : {Null, Some(150000)}]

NextTime ==
    \/ \E input \in LimitUserInputs : CreateUser(input, 0)
    \/ \E input \in TimedEntryInputs, userId \in UserIds : CreateTimeEntry(input, userId)
    \/ \E input \in UpdateTimeEntryInputs : UpdateTimeEntry(input)

SpecTime == Init /\ [][NextTime]_vars

\* requests of the partial-update runs: at time 0 a sign-up, a second
\* subscription with an expiry, a second organization and completed time
\* entries; at any time updates
\* that give some of the fields, an explicit null, or none
ExpiringSubscriptionInputs == [user_id : {1}, plan : {"pro"}, expires_at : {Some(5)}]
PartialSubscriptionInputs ==
    [id : SubscriptionIds, status : {"cancelled"}, expires_at : {Null}]
PartialOrganizationInputs ==
    [id : OrganizationIds] \cup [id : OrganizationIds, name : {"Works"}]
SecondOrganizationInputs == [name : {"Lab"}, owner_id : {1}]
CompletedEntryInputs == [description : {"work"}, start_time : {0}, end_time : {Some(90000)}]
PartialTimeEntryInputs ==
    [id : TimeEntryIds, description : {"more"}]
        \cup [id : TimeEntryIds, end_time : {Null}, tags : {<<"t">>}]
        \cup [id : TimeEntryIds, customer_id : {Some(1)}]

NextUpdates ==
    \/ now = 0 /\ \E input \in LimitUserInputs : CreateUser(input, 0)
    \/ now = 0 /\ \E input \in ExpiringSubscriptionInputs : CreateSubscription(input)
    \/ now = 0 /\ \E input \in SecondOrganizationInputs : CreateOrganization(input)
    \/ now = 0 /\ \E input \in CompletedEntryInputs : CreateTimeEntry(input, 1)
    \/ \E input \in PartialSubscriptionInputs : UpdateSubscription(input)
    \/ \E input \in PartialOrganizationInputs : UpdateOrganization(input)
    \/ \E input \in PartialTimeEntryInputs : UpdateTimeEntry(input)
    \/ Tick

SpecUpdates == Init /\ [][NextUpdates]_vars

\* requests of the subscription runs: every plan, with and without overrides
\* of the limits (0 is an override) and with and without an expiry
PlanInputs ==
    LET base == [user_id : UserIds, plan : {"free", "pro", "enterprise"}]
        with(inputs, f, values) ==
            inputs \cup {[g \in DOMAIN i \cup {f} |-> IF g = f THEN v ELSE i[g]] :
                            i \in inputs, v \in values}
    IN  with(with(with(base, "max_customers", {0, 200}), "max_projects", {500}),
             "expires_at", {Some(5)})

NextSubscriptions ==
    \/ \E input \in LimitUserInputs : CreateUser(input, 0)
    \/ \E input \in PlanInputs : CreateSubscription(input)

SpecSubscriptions == Init /\ [][NextSubscriptions]_vars

\* The dashboard runs start from a store two sign-ups and their
\* requests can have left: user 1 with organization 1, customers
\* 1 .. OrgCustomers and one project for each, user 2 with organization 2, one
\* customer and one project; `today` is one of 7 .. 15 January 1970 and the
\* dashboard is asked for at 02:00 or at 04:00.
DashboardUsers ==
    {[id |-> u, email |-> "u" \o ToString(u), name |-> "User " \o ToString(u),
      created_at |-> 0, updated_at |-> 0] : u \in 1 .. 2}
DashboardOrganizations ==
    {[id |-> u, name |-> DefaultOrganizationName("User " \o ToString(u)),
      owner_id |-> u, created_at |-> 0, updated_at |-> 0] : u \in 1 .. 2}
DashboardSubscriptions ==
    {[id |-> u, user_id |-> u, plan |-> "pro", status |-> "active",
      max_customers |-> ProMaxCustomers, max_projects |-> ProMaxProjects,
      expires_at |-> Null, created_at |-> 0, updated_at |-> 0] : u \in 1 .. 2}
OrganizationOf(k) == IF k <= OrgCustomers THEN 1 ELSE 2
DashboardCustomers ==
    {[id |-> k, name |-> "Customer " \o ToString(k), email |-> Null, phone |-> Null,
      address |-> Null, organization_id |-> OrganizationOf(k),
      created_by |-> OrganizationOf(k), created_at |-> 0, updated_at |-> 0] :
        k \in 1 .. OrgCustomers + 1}
DashboardProjects ==
    {[id |-> k, name |-> "Project " \o ToString(k), description |-> Null,
      customer_id |-> k, organization_id |-> OrganizationOf(k),
      created_by |-> OrganizationOf(k), is_active |-> TRUE,
      created_at |-> 0, updated_at |-> 0] : k \in 1 .. OrgCustomers + 1}

\* a row createTimeEntry stores: completed after `minutes`, or active when
\* minutes is Null
StoredEntry(id, userId, customerId, projectId, startTime, minutes) ==
    [id |-> id, user_id |-> userId, customer_id |-> customerId,
     project_id |-> projectId, description |-> "work", start_time |-> startTime,
     end_time |-> IF minutes = Null THEN Null
                  ELSE Some(startTime + Val(minutes) * MsPerMinute),
     duration_minutes |-> IF minutes = Null THEN Null
                          ELSE Some(DurationMinutes(startTime,
                                        startTime + Val(minutes) * MsPerMinute)),
     tags |-> <<>>, created_at |-> 0, updated_at |-> 0]

\* entries placed relative to 00:00 of `today`: the four of the dashboard
\* test, an active one, one of user 2, one later in the day, one for the
\* customer of organization 2
Pool == 1 .. 8
PoolSize == Cardinality(Pool)
PoolEntry(i, today) ==
    CASE i = 1 -> StoredEntry(1, 1, Some(1), Some(1), today, Some(120))
      [] i = 2 -> StoredEntry(2, 1, Some(2), Some(2), today + 3 * MsPerHour, Some(60))
      [] i = 3 -> StoredEntry(3, 1, Some(1), Some(1), today - MsPerDay, Some(180))
      [] i = 4 -> StoredEntry(4, 1, Some(2), Some(2), today - 8 * MsPerDay, Some(240))
      [] i = 5 -> StoredEntry(5, 1, Some(1), Null, today + MsPerHour, Null)
      [] i = 6 -> StoredEntry(6, 2, Some(1), Some(1), today, Some(30))
      [] i = 7 -> StoredEntry(7, 1, Some(3), Some(3), today + 23 * MsPerHour, Some(15))
      [] i = 8 -> StoredEntry(8, 1, Some(OrgCustomers + 1), Some(OrgCustomers + 1),
                              today, Some(45))

\* BulkEntries entries of user 1, a minute apart from 00:01 of `today`, spread
\* over the customers and projects of organization 1
BulkEntry(k, today) ==
    StoredEntry(PoolSize + k, 1, Some(((k - 1) % OrgCustomers) + 1),
                Some(((k - 1) % OrgCustomers) + 1), today + k * MsPerMinute,
                Some(10 * k))

InitDashboard ==
    /\ users = DashboardUsers
    /\ organizations = DashboardOrganizations
    /\ subscriptions = DashboardSubscriptions
    /\ customers = DashboardCustomers
    /\ projects = DashboardProjects
    /\ \E day \in MaxDay - 8 .. MaxDay, hour \in {2, 4},
          chosen \in SUBSET Pool, bulk \in {0, BulkEntries} :
            /\ now = day * MsPerDay + hour * MsPerHour
            /\ timeEntries = {PoolEntry(i, day * MsPerDay) : i \in chosen}
                    \cup {BulkEntry(k, day * MsPerDay) : k \in 1 .. bulk}
    /\ nextId = [user |-> 3, organization |-> 3, subscription |-> 3,
                 customer |-> OrgCustomers + 2, project |-> OrgCustomers + 2,
                 timeEntry |-> PoolSize + BulkEntries + 1]
    /\ last = NoResult
    /\ pre = Snapshot
    /\ calls = <<>>

NextDashboard ==
    \E userId \in 1 .. 2, organizationId \in 1 .. 2 :
        GetDashboardStats(userId, organizationId)

SpecDashboard == InitDashboard /\ [][NextDashboard]_vars

\* getTimeEntries over stored entries: the tags `a`, `b`, `c`, the tag `a","b`
\* and the tag `a"b`; entries 2 and 3 start at the same time
TagA == <<"a">>
TagB == <<"b">>
TagC == <<"c">>
TagQuoted == <<"a", Quote, Comma, Quote, "b">>
TagTorn == <<"a", Quote, "b">>
QueryPool == 1 .. 4
QueryEntry(i) ==
    CASE i = 1 -> [StoredEntry(1, 1, Some(1), Some(1), MsPerHour, Some(30))
                      EXCEPT !.tags = <<TagA>>]
      [] i = 2 -> [StoredEntry(2, 1, Some(2), Some(2), 2 * MsPerHour, Some(30))
                      EXCEPT !.tags = <<TagB, TagC>>]
      [] i = 3 -> [StoredEntry(3, 2, Some(1), Some(1), 2 * MsPerHour, Null)
                      EXCEPT !.tags = <<>>]
      [] i = 4 -> [StoredEntry(4, 1, Null, Null, 3 * MsPerHour, Some(30))
                      EXCEPT !.tags = <<TagQuoted>>]

Only(input, fields) == [f \in fields |-> input[f]]

GetTimeEntriesInputs ==
    LET all == [user_id : {EmptyId, 1}, customer_id : {1}, project_id : {1},
                start_date : {2 * MsPerHour}, end_date : {2 * MsPerHour},
                tags : {<<>>, <<TagA>>, <<TagC, TagA>>, <<TagQuoted>>, <<TagTorn>>}]
    IN  {Only(input, fields) :
            input \in all,
            fields \in SUBSET {"user_id", "customer_id", "project_id",
                               "start_date", "end_date", "tags"}}

InitEntries ==
    /\ users = DashboardUsers
    /\ organizations = DashboardOrganizations
    /\ subscriptions = DashboardSubscriptions
    /\ customers = DashboardCustomers
    /\ projects = DashboardProjects
    /\ \E chosen \in SUBSET QueryPool : timeEntries = {QueryEntry(i) : i \in chosen}
    /\ nextId = [user |-> 3, organization |-> 3, subscription |-> 3,
                 customer |-> OrgCustomers + 2, project |-> OrgCustomers + 2,
                 timeEntry |-> Cardinality(QueryPool) + 1]
    /\ now = 4 * MsPerHour
    /\ last = NoResult
    /\ pre = Snapshot
    /\ calls = <<>>

NextEntries == \E input \in GetTimeEntriesInputs : GetTimeEntries(input)

SpecEntries == InitEntries /\ [][NextEntries]_vars

\* ------------------------------------------------------------ two users
\* users 1 and 2 with an organization each and no subscription yet; either
\* creates customers and projects in either organization
GovernedSubscriptionInputs ==
    [user_id : 1 .. 2, plan : {"free"}, max_customers : {1}, max_projects : {1}]

InitGoverned ==
    /\ users = DashboardUsers
    /\ organizations = DashboardOrganizations
    /\ subscriptions = {}
    /\ customers = {}
    /\ projects = {}
    /\ timeEntries = {}
    /\ nextId = [user |-> 3, organization |-> 3, subscription |-> 1,
                 customer |-> 1, project |-> 1, timeEntry |-> 1]
    /\ now = 0
    /\ last = NoResult
    /\ pre = Snapshot
    /\ calls = <<>>

NextGoverned ==
    \/ \E input \in GovernedSubscriptionInputs : CreateSubscription(input)
    \/ \E input \in UpdateSubscriptionInputs : UpdateSubscription(input)
    \/ \E input \in LimitCustomerInputs, createdBy \in 1 .. 2 :
            CreateCustomer(input, createdBy)
    \/ \E input \in LimitProjectInputs, createdBy \in 1 .. 2 :
            CreateProject(input, createdBy)

SpecGoverned == InitGoverned /\ [][NextGoverned]_vars

\* ------------------------------------------------- racing for the limit
\* organization 1 of user 1 under an active subscription with limit L, a
\* number of rows up to L already there, and one to MaxCalls creates of one
\* kind in flight
RaceSubscription(limit) ==
    [DefaultSubscription(1, 1) EXCEPT !.max_customers = limit, !.max_projects = limit]

RaceCustomer(k) ==
    [id |-> k, name |-> "Customer " \o ToString(k), email |-> Null, phone |-> Null,
     address |-> Null, organization_id |-> 1, created_by |-> 1,
     created_at |-> 0, updated_at |-> 0]

RaceProject(k) ==
    [id |-> k, name |-> "Project " \o ToString(k), description |-> Null,
     customer_id |-> 1, organization_id |-> 1, created_by |-> 1, is_active |-> TRUE,
     created_at |-> 0, updated_at |-> 0]

InitRace ==
    /\ users = DashboardUsers
    /\ organizations = DashboardOrganizations
    /\ timeEntries = {}
    /\ now = 0
    /\ last = NoResult
    /\ \E limit \in 0 .. MaxLimit, existing \in 0 .. MaxLimit, n \in 1 .. MaxCalls,
          op \in {"createCustomer", "createProject"} :
            /\ existing <= limit
            /\ subscriptions = {RaceSubscription(limit)}
            /\ IF op = "createCustomer"
               THEN /\ customers = {RaceCustomer(k) : k \in 1 .. existing}
                    /\ projects = {}
                    /\ calls = [i \in 1 .. n |->
                                  Call(op, [name |-> "Acme", organization_id |-> 1],
                                       1, "organization")]
               ELSE /\ customers = {RaceCustomer(1)}
                    /\ projects = {RaceProject(k) : k \in 1 .. existing}
                    /\ calls = [i \in 1 .. n |->
                                  Call(op, [name |-> "Site", customer_id |-> 1,
                                            organization_id |-> 1],
                                       1, "organization")]
    /\ nextId = [user |-> 3, organization |-> 3, subscription |-> 2,
                 customer |-> MaxLimit + 1, project |-> MaxLimit + 1, timeEntry |-> 1]
    /\ pre = Snapshot

NextRace ==
    \/ \E i \in DOMAIN calls : CreateCustomerStep(i)
    \/ \E i \in DOMAIN calls : CreateProjectStep(i)

SpecRace == InitRace /\ [][NextRace]_vars

\* ------------------------------------------------------- signing up
\* two sign-ups and a createCustomer for the first organization in flight
SignUpInputs == [email : {"a@x", "b@x"}, name : Names]

InitSignUp ==
    /\ users = {}
    /\ organizations = {}
    /\ subscriptions = {}
    /\ customers = {}
    /\ projects = {}
    /\ timeEntries = {}
    /\ nextId = [user |-> 1, organization |-> 1, subscription |-> 1,
                 customer |-> 1, project |-> 1, timeEntry |-> 1]
    /\ now = 0
    /\ last = NoResult
    /\ pre = Snapshot
    /\ \E first \in SignUpInputs, second \in SignUpInputs :
          calls = <<Call("createUser", first, 0, "user"),
                    Call("createUser", second, 0, "user"),
                    Call("createCustomer", [name |-> "Acme", organization_id |-> 1],
                         1, "organization")>>

NextSignUp ==
    \/ \E i \in DOMAIN calls : CreateUserStep(i)
    \/ \E i \in DOMAIN calls : CreateCustomerStep(i)

SpecSignUp == InitSignUp /\ [][NextSignUp]_vars

\* ------------------------------------------------ deleting under creation
\* customers 1 and 2 of organization 1, project 2 of customer 2 and possibly
\* project 1 of customer 1, entries of either; deleteCustomer(1) in flight with
\* a createProject for customer 1 or a createTimeEntry naming customer 1 or
\* project 1
DeleteRaceEntries ==
    {StoredEntry(1, 1, Some(1), Null, 0, Some(30)),
     StoredEntry(2, 1, Null, Some(1), 0, Some(30)),
     StoredEntry(3, 1, Some(2), Some(2), 0, Null)}

DeleteRaceCalls ==
    {Call("createProject", [name |-> "Site", customer_id |-> 1, organization_id |-> 1],
          1, "organization")}
      \cup {Call("createTimeEntry", input, 1, "insert") :
                input \in [description : {"work"}, start_time : {0},
                           customer_id : {Some(1)}]
                    \cup [description : {"work"}, start_time : {0},
                          project_id : {Some(1)}]
                    \cup [description : {"work"}, start_time : {0},
                          customer_id : {Some(1)}, project_id : {Some(1)}]}

InitDeleteRace ==
    /\ users = DashboardUsers
    /\ organizations = DashboardOrganizations
    /\ subscriptions = DashboardSubscriptions
    /\ customers = {RaceCustomer(1), RaceCustomer(2)}
    /\ \E own \in SUBSET {1} :
          /\ projects = {RaceProject(k) : k \in own}
                            \cup {[RaceProject(2) EXCEPT !.customer_id = 2]}
          /\ \E entries \in SUBSET {e \in DeleteRaceEntries :
                                        RefOk(projects, e.project_id)} :
                timeEntries = entries
    /\ nextId = [user |-> 3, organization |-> 3, subscription |-> 3,
                 customer |-> 3, project |-> 3,
                 timeEntry |-> Cardinality(DeleteRaceEntries) + 1]
    /\ now = 0
    /\ last = NoResult
    /\ pre = Snapshot
    /\ \E other \in DeleteRaceCalls :
          calls = <<Call("deleteCustomer", [id |-> 1], 0, "entriesOfCustomer"), other>>

NextDeleteRace ==
    \/ \E i \in DOMAIN calls : DeleteCustomerStep(i)
    \/ \E i \in DOMAIN calls : CreateProjectStep(i)
    \/ \E i \in DOMAIN calls : CreateTimeEntryStep(i)

SpecDeleteRace == InitDeleteRace /\ [][NextDeleteRace]_vars

\* ------------------------------------------------- updating one entry twice
\* entry 1, completed after two minutes or still active, and two
\* updateTimeEntry calls on it in flight
UpdateRaceInputs ==
    [id : {1}, start_time : {MsPerMinute}]
        \cup [id : {1}, end_time : {Null, Some(5 * MsPerMinute)}]
        \cup [id : {1}, description : {"review"}]
        \cup [id : {2}, description : {"review"}]

InitUpdateRace ==
    /\ users = DashboardUsers
    /\ organizations = DashboardOrganizations
    /\ subscriptions = DashboardSubscriptions
    /\ customers = {}
    /\ projects = {}
    /\ \E minutes \in {Null, Some(2)} :
          timeEntries = {StoredEntry(1, 1, Null, Null, 0, minutes)}
    /\ nextId = [user |-> 3, organization |-> 3, subscription |-> 3,
                 customer |-> 1, project |-> 1, timeEntry |-> 2]
    /\ now = 0
    /\ last = NoResult
    /\ pre = Snapshot
    /\ \E first \in UpdateRaceInputs, second \in UpdateRaceInputs :
          calls = <<Call("updateTimeEntry", first, 0, "select"),
                    Call("updateTimeEntry", second, 0, "select")>>

NextUpdateRace == \E i \in DOMAIN calls : UpdateTimeEntryStep(i)

SpecUpdateRace == InitUpdateRace /\ [][NextUpdateRace]_vars

\* ================================================================ claims
\* the rows of a table that belong to an organization
InOrganization(table, orgId) == {r \in table : r.organization_id = orgId}

\* the subscription row the last request read
Consulted == Row(pre.subscriptions, last.sub)

\* the tables are as the last request found them
NothingWritten ==
    /\ users = pre.users
    /\ organizations = pre.organizations
    /\ subscriptions = pre.subscriptions
    /\ customers = pre.customers
    /\ projects = pre.projects
    /\ timeEntries = pre.timeEntries

\* the last request was a create of that kind which found its organization (and,
\* for a project, its customer), read an active subscription and named an
\* existing creator
CreateReady(op) ==
    /\ last.op = op
    /\ last.sub # 0
    /\ Consulted.status = "active"
    /\ last.by \in Ids(pre.users)

\* C1: with a non-negative limit L on the subscription the handler reads, a
\* create whose other preconditions hold inserts exactly one row when the
\* organization's count is below L and otherwise fails with the limit error
\* and inserts nothing; after a successful create the count is at most L.
C1_LimitEnforced ==
    /\ (CreateReady("createCustomer") /\ Consulted.max_customers >= 0) =>
            LET org == last.input.organization_id
                L == Consulted.max_customers
                before == Cardinality(InOrganization(pre.customers, org))
                after == Cardinality(InOrganization(customers, org))
            IN IF before < L
               THEN /\ last.outcome = "ok"
                    /\ pre.customers \subseteq customers
                    /\ after = before + 1
                    /\ after <= L
               ELSE /\ last.outcome = "limit"
                    /\ NothingWritten
    /\ (CreateReady("createProject") /\ Consulted.max_projects >= 0) =>
            LET org == last.input.organization_id
                L == Consulted.max_projects
                before == Cardinality(InOrganization(pre.projects, org))
                after == Cardinality(InOrganization(projects, org))
            IN IF before < L
               THEN /\ last.outcome = "ok"
                    /\ pre.projects \subseteq projects
                    /\ after = before + 1
                    /\ after <= L
               ELSE /\ last.outcome = "limit"
                    /\ NothingWritten

\* a create refused at a limit of one or more that the organization has reached
C1_Witness ==
    /\ CreateReady("createCustomer")
    /\ last.outcome = "limit"
    /\ Consulted.max_customers >= 1
    /\ Cardinality(InOrganization(pre.customers, last.input.organization_id))
            = Consulted.max_customers

\* C2: with a limit of -1 on the subscription the handler reads, a create
\* whose other preconditions hold succeeds whatever the count; the limit error
\* is never raised.
C2_UnlimitedSucceeds ==
    /\ (CreateReady("createCustomer") /\ Consulted.max_customers = Unlimited)
            => last.outcome = "ok"
    /\ (CreateReady("createProject") /\ Consulted.max_projects = Unlimited)
            => last.outcome = "ok"

\* ---------------------------------------------------------------- deletes
\* the ids of the projects a customer had when the last request arrived
ProjectsOf(customerId) ==
    {p.id : p \in {q \in pre.projects : q.customer_id = customerId}}

\* an entry that names the customer or one of the given projects
Touches(e, customerId, projectIds) ==
    \/ e.customer_id = Some(customerId)
    \/ \E p \in projectIds : e.project_id = Some(p)

\* C3: deleteCustomer(c) on an existing customer c returns true and leaves no
\* Customer c, no Project of c and no TimeEntry that names c or a project that
\* belonged to c.
C3_CascadeComplete ==
    (last.op = "deleteCustomer" /\ last.input.id \in Ids(pre.customers)) =>
        LET c == last.input.id
        IN  /\ last.outcome = "true"
            /\ c \notin Ids(customers)
            /\ \A p \in projects : p.customer_id # c
            /\ \A e \in timeEntries : ~Touches(e, c, ProjectsOf(c))

\* a customer deleted that had a project, a time entry naming the customer and
\* a time entry naming only the project
C3_Witness ==
    /\ last.op = "deleteCustomer"
    /\ last.outcome = "true"
    /\ ProjectsOf(last.input.id) # {}
    /\ \E e \in pre.timeEntries : e.customer_id = Some(last.input.id)
    /\ \E e \in pre.timeEntries :
          /\ e.customer_id # Some(last.input.id)
          /\ \E p \in ProjectsOf(last.input.id) : e.project_id = Some(p)

C5_DurationInvariant ==
    \A e \in timeEntries :
        IF e.end_time = Null THEN e.duration_minutes = Null
        ELSE /\ e.duration_minutes # Null
             /\ Val(e.duration_minutes) * 60000 <= Val(e.end_time) - e.start_time
             /\ Val(e.end_time) - e.start_time < (Val(e.duration_minutes) + 1) * 60000

\* an entry whose start_time was updated while it kept its end_time
C5_Witness ==
    /\ last.op = "updateTimeEntry"
    /\ last.outcome = "ok"
    /\ Has(last.input, "start_time")
    /\ ~Has(last.input, "end_time")
    /\ Row(timeEntries, last.id).end_time # Null
    /\ Row(timeEntries, last.id).start_time # Row(pre.timeEntries, last.id).start_time

\* C6: a successful createUser adds exactly one User, one Organization owned by
\* that user and named "{name}'s Organization", and one Subscription of that
\* user with plan free, status active, limits 3 and 3 and no expiry, and adds
\* or changes no other row.
C6_SignUpRows ==
    (last.op = "createUser" /\ last.outcome = "ok") =>
        /\ pre.users \subseteq users
        /\ pre.organizations \subseteq organizations
        /\ pre.subscriptions \subseteq subscriptions
        /\ \E u \in users \ pre.users :
             /\ users \ pre.users = {u}
             /\ u.email = last.input.email
             /\ u.name = last.input.name
             /\ \E o \in organizations \ pre.organizations :
                  /\ organizations \ pre.organizations = {o}
                  /\ o.owner_id = u.id
                  /\ o.name = last.input.name \o "'s Organization"
             /\ \E s \in subscriptions \ pre.subscriptions :
                  /\ subscriptions \ pre.subscriptions = {s}
                  /\ s.user_id = u.id
                  /\ s.plan = "free"
                  /\ s.status = "active"
                  /\ s.max_customers = 3
                  /\ s.max_projects = 3
                  /\ s.expires_at = Null
        /\ customers = pre.customers
        /\ projects = pre.projects
        /\ timeEntries = pre.timeEntries

\* a sign-up that succeeded
C6_Witness ==
    /\ last.op = "createUser"
    /\ last.outcome = "ok"
    /\ \E u \in users \ pre.users : u.id = last.id /\ u.email = last.input.email

\* C7: every Project names an existing Customer of the Project's organization,
\* and createProject with a customer id that is absent or of another
\* organization fails and inserts no Project.
C7_ProjectCustomerSameOrganization ==
    /\ \A p \in projects : \E c \in customers :
            c.id = p.customer_id /\ c.organization_id = p.organization_id
    /\ (/\ last.op = "createProject"
        /\ ~\E c \in pre.customers : /\ c.id = last.input.customer_id
                                     /\ c.organization_id = last.input.organization_id)
            => (last.outcome # "ok" /\ projects = pre.projects)

\* a createProject refused for a customer that exists in another organization
C7_Witness ==
    /\ last.op = "createProject"
    /\ last.outcome = "customer_not_found"
    /\ \E c \in pre.customers : /\ c.id = last.input.customer_id
                                 /\ c.organization_id # last.input.organization_id

\* C8: createCustomer fails with organization-not-found when the organization
\* is absent, otherwise with subscription-not-found when the owner has no
\* subscription, otherwise with subscription-not-active when the subscription
\* read is not active, whatever the count; none of these failures writes a row.
C8_CreateCustomerErrorOrder ==
    last.op = "createCustomer" =>
        LET orgId == last.input.organization_id
            owned == {s \in pre.subscriptions :
                        \E o \in pre.organizations :
                            o.id = orgId /\ o.owner_id = s.user_id}
        IN  IF orgId \notin Ids(pre.organizations)
            THEN last.outcome = "organization_not_found" /\ NothingWritten
            ELSE IF owned = {}
            THEN last.outcome = "no_subscription" /\ NothingWritten
            ELSE /\ last.sub \in Ids(owned)
                 /\ Row(owned, last.sub).status # "active"
                        => (last.outcome = "not_active" /\ NothingWritten)

\* a create refused for an inactive subscription whose limit is reached too
C8_Witness ==
    /\ last.op = "createCustomer"
    /\ last.outcome = "not_active"
    /\ Cardinality(InOrganization(pre.customers, last.input.organization_id))
            >= Consulted.max_customers

\* C9: deleteCustomer, deleteProject and deleteTimeEntry with an id that names
\* no row return false, raise no error and leave every table as it was.
C9_DeleteMissingIsNoOp ==
    /\ (last.op = "deleteCustomer" /\ last.input.id \notin Ids(pre.customers))
            => (last.outcome = "false" /\ NothingWritten)
    /\ (last.op = "deleteProject" /\ last.input.id \notin Ids(pre.projects))
            => (last.outcome = "false" /\ NothingWritten)
    /\ (last.op = "deleteTimeEntry" /\ last.input.id \notin Ids(pre.timeEntries))
            => (last.outcome = "false" /\ NothingWritten)

\* a customer id that was deleted before is deleted again while projects and
\* time entries exist
C9_Witness ==
    /\ last.op = "deleteCustomer"
    /\ last.outcome = "false"
    /\ last.input.id < nextId.customer
    /\ projects # {}
    /\ timeEntries # {}

\* C10: deleteCustomer(c) removes only the Customer c, the Projects of c and
\* the TimeEntries that name c or one of those projects; every other row of
\* every table is the same before and after.
C10_DeleteCustomerFrame ==
    last.op = "deleteCustomer" =>
        LET c == last.input.id
        IN  /\ {r \in pre.customers : r.id # c} \subseteq customers
            /\ {p \in pre.projects : p.customer_id # c} \subseteq projects
            /\ {e \in pre.timeEntries : ~Touches(e, c, ProjectsOf(c))}
                    \subseteq timeEntries
            /\ customers \subseteq pre.customers
            /\ projects \subseteq pre.projects
            /\ timeEntries \subseteq pre.timeEntries
            /\ users = pre.users
            /\ organizations = pre.organizations
            /\ subscriptions = pre.subscriptions

\* a customer deleted with a time entry of its own, while another customer with
\* a project and a time entry remains
C10_Witness ==
    /\ last.op = "deleteCustomer"
    /\ last.outcome = "true"
    /\ timeEntries # pre.timeEntries
    /\ customers # {}
    /\ projects # {}
    /\ timeEntries # {}

\* C11: a deleteCustomer or deleteProject that repeats the call served just
\* before it, with the same id, returns false and leaves the store as the
\* first call left it.
C11_DeleteTwice ==
    (last.op \in {"deleteCustomer", "deleteProject"} /\ last.again) =>
        /\ last.outcome = "false"
        /\ NothingWritten

\* the second of two consecutive deleteCustomer calls for a customer that was
\* created once, while a project and a time entry of another customer remain
C11_Witness ==
    /\ last.op = "deleteCustomer"
    /\ last.again
    /\ last.outcome = "false"
    /\ last.input.id < nextId.customer
    /\ projects # {}
    /\ timeEntries # {}

\* ------------------------------------------------------------------ updates
\* the row of the last update before and after it
Before(table) == Row(table, last.input.id)

\* d is the floor of (endTime - startTime) / 60000
IsFloorMinutes(d, startTime, endTime) ==
    /\ d * 60000 <= endTime - startTime
    /\ endTime - startTime < (d + 1) * 60000

\* C12: an updateTimeEntry that omits end_time keeps the stored end_time and
\* derives duration_minutes from the effective start_time and that end_time;
\* one that gives end_time = null stores a null end_time and a null
\* duration_minutes, whatever start_time it gives and whatever was stored.
C12_OmittedVersusNull ==
    (last.op = "updateTimeEntry" /\ last.outcome = "ok") =>
        LET old == Before(pre.timeEntries)
            new == Before(timeEntries)
            startTime == IF Has(last.input, "start_time") THEN last.input.start_time
                         ELSE old.start_time
        IN  /\ ~Has(last.input, "end_time") =>
                /\ new.end_time = old.end_time
                /\ IF old.end_time = Null THEN new.duration_minutes = Null
                   ELSE /\ new.duration_minutes # Null
                        /\ IsFloorMinutes(Val(new.duration_minutes), startTime,
                                          Val(old.end_time))
            /\ (Has(last.input, "end_time") /\ last.input.end_time = Null) =>
                /\ new.end_time = Null
                /\ new.duration_minutes = Null

\* an update giving a start_time and end_time = null to an entry that had an
\* end_time and a duration
C12_Witness ==
    /\ last.op = "updateTimeEntry"
    /\ last.outcome = "ok"
    /\ Has(last.input, "start_time")
    /\ Has(last.input, "end_time")
    /\ last.input.end_time = Null
    /\ Before(pre.timeEntries).end_time # Null
    /\ Before(pre.timeEntries).duration_minutes # Null

\* columns no update writes
Fixed == {"id", "created_at", "user_id", "owner_id"}

\* the row `new` is the row `old` after a partial update with the last input:
\* provided columns hold the provided values, updated_at holds the time of the
\* update and is not earlier than before, every other column (but those in
\* `derived`) is as it was
Updated(old, new, derived) ==
    /\ DOMAIN new = DOMAIN old
    /\ \A f \in DOMAIN old :
          IF f \in Fixed THEN new[f] = old[f]
          ELSE IF Has(last.input, f) THEN new[f] = last.input[f]
          ELSE IF f = "updated_at"
               THEN new.updated_at = now /\ new.updated_at >= old.updated_at
          ELSE f \in derived \/ new[f] = old[f]

\* only the row with the last input's id differs between the two tables
OnlyRowChanged(before, after) ==
    /\ Ids(after) = Ids(before)
    /\ after \ {Before(after)} = before \ {Before(before)}

C14_UpdateMissingFails ==
    /\ (last.op = "updateSubscription" /\ last.input.id \notin Ids(pre.subscriptions))
            => (last.outcome = "not_found" /\ last.id = 0 /\ NothingWritten)
    /\ (last.op = "updateOrganization" /\ last.input.id \notin Ids(pre.organizations))
            => (last.outcome = "not_found" /\ last.id = 0 /\ NothingWritten)
    /\ (last.op = "updateTimeEntry" /\ last.input.id \notin Ids(pre.timeEntries))
            => (last.outcome = "not_found" /\ last.id = 0 /\ NothingWritten)

\* an updateSubscription with fields to write and an id that names no row,
\* while another subscription exists
C14_Witness ==
    /\ last.op = "updateSubscription"
    /\ last.outcome = "not_found"
    /\ Has(last.input, "status")
    /\ subscriptions # {}
    /\ last.input.id \notin Ids(subscriptions)

\* C15: createUser with the email of an existing user ends with a conflict
\* error and adds no User, Organization or Subscription; no two users ever
\* share an email.
C15_EmailUnique ==
    /\ (last.op = "createUser" /\ \E u \in pre.users : u.email = last.input.email)
            => (last.outcome = "conflict" /\ NothingWritten)
    /\ \A u, v \in users : u.email = v.email => u = v

\* a sign-up refused for an email a user already has
C15_Witness ==
    /\ last.op = "createUser"
    /\ last.outcome = "conflict"
    /\ \E u \in users : u.email = last.input.email
    /\ users = pre.users

\* ---------------------------------------------------------------- dashboard
\* the last request was getDashboardStats for user u
Asked(u) == last.op = "getDashboardStats" /\ last.input.user_id = u

\* 00:00 of the day of `now`, and whether that day is a Sunday (4 January 1970
\* was one)
Midnight == now - (now % MsPerDay)
IsSunday == (now \div MsPerDay) % 7 = 3

\* the entries of user u that have a duration
Completed(u) == {e \in timeEntries : e.user_id = u /\ e.duration_minutes # Null}

\* entry e lasted m minutes and started on the day `back` days before today
Placed(e, m, back) ==
    /\ e.duration_minutes = Some(m)
    /\ e.start_time >= Midnight - back * MsPerDay
    /\ e.start_time < Midnight - back * MsPerDay + MsPerDay

\* user u's completed entries are those of the dashboard test: 120 and 60
\* minutes started today and not after now, 180 minutes started yesterday, 240
\* minutes started 8 days ago, all in January 1970
TestEntries(u) ==
    /\ Cardinality(Completed(u)) = 4
    /\ \E e1, e2, e3, e4 \in Completed(u) :
          /\ Cardinality({e1, e2, e3, e4}) = 4
          /\ Placed(e1, 120, 0) /\ e1.start_time <= now
          /\ Placed(e2, 60, 0) /\ e2.start_time <= now
          /\ Placed(e3, 180, 1)
          /\ Placed(e4, 240, 8)
    /\ Midnight - 8 * MsPerDay >= 0

RECURSIVE Minutes(_)
Minutes(entries) ==
    IF entries = {} THEN 0
    ELSE LET e == CHOOSE x \in entries : \A y \in entries : x.id >= y.id
         IN  Minutes(entries \ {e}) + Val(e.duration_minutes)

\* 00:00 of the most recent Sunday, today included
LastSunday ==
    LET back == CHOOSE k \in 0 .. 6 : ((now \div MsPerDay) - k) % 7 = 3
    IN  Midnight - back * MsPerDay

\* 00:00 of the first day of the month of `now`: `now` lies in January 1970,
\* whose day d starts d days after the first
FirstOfMonth == Midnight - (now \div MsPerDay) * MsPerDay

\* user u's completed entries started in [windowStart, now]
Within(u, windowStart) ==
    {e \in Completed(u) : windowStart <= e.start_time /\ e.start_time <= now}

Range(seq) == {seq[i] : i \in 1 .. Len(seq)}

\* the sequence holds no element twice and is in non-increasing order of f
Descending(seq, f) ==
    /\ Cardinality(Range(seq)) = Len(seq)
    /\ \A i, j \in 1 .. Len(seq) : i < j => seq[i][f] >= seq[j][f]

\* the sequence holds the n greatest rows by f, or every row when there are
\* fewer than n
Greatest(seq, rows, f, n) ==
    /\ Range(seq) \subseteq rows
    /\ Len(seq) = IF Cardinality(rows) < n THEN Cardinality(rows) ELSE n
    /\ \A out \in rows \ Range(seq) : \A i \in 1 .. Len(seq) : seq[i][f] >= out[f]

\* C18: recentEntries holds min(10, n) of the asked user's n TimeEntries,
\* those with the greatest start_time, in non-increasing start_time order,
\* entries without a duration included, and no entry of another user.
C18_RecentEntries ==
    last.op = "getDashboardStats" =>
        LET own == {e \in timeEntries : e.user_id = last.input.user_id}
        IN  /\ Descending(last.stats.recentEntries, "start_time")
            /\ Greatest(last.stats.recentEntries, own, "start_time", 10)

\* a user with more than 10 entries, an active one among the 10 latest, while
\* another user has an entry as well
C18_Witness ==
    /\ Asked(1)
    /\ Cardinality({e \in timeEntries : e.user_id = 1}) > 10
    /\ Len(last.stats.recentEntries) = 10
    /\ \E e \in Range(last.stats.recentEntries) : e.duration_minutes = Null
    /\ \E e \in timeEntries : e.user_id = 2

\* the asked user's entries of this month's window that name customer c
\* (project p)
MonthOfCustomer(c) ==
    {e \in Within(last.input.user_id, FirstOfMonth) : e.customer_id = Some(c)}
MonthOfProject(p) ==
    {e \in Within(last.input.user_id, FirstOfMonth) : e.project_id = Some(p)}

\* one row for each customer (project) of the asked organization with such an
\* entry, holding the sum of their durations
CustomerTotals ==
    {[customer_id |-> c.id, customer_name |-> c.name,
      total_minutes |-> Minutes(MonthOfCustomer(c.id))] :
        c \in {x \in customers : /\ x.organization_id = last.input.organization_id
                                 /\ MonthOfCustomer(x.id) # {}}}
ProjectTotals ==
    {[project_id |-> p.id, project_name |-> p.name,
      total_minutes |-> Minutes(MonthOfProject(p.id))] :
        p \in {x \in projects : /\ x.organization_id = last.input.organization_id
                                /\ MonthOfProject(x.id) # {}}}

\* C19: topCustomersByTime and topProjectsByTime have at most 5 elements, one
\* for each customer (project) of the asked organization that has an entry of
\* the asked user with a duration in this month's window, each with the sum of
\* those durations, in descending order of the sum, and no customer (project)
\* left out has a larger sum than one returned.
C19_TopByTime ==
    last.op = "getDashboardStats" =>
        /\ Len(last.stats.topCustomersByTime) <= 5
        /\ Descending(last.stats.topCustomersByTime, "total_minutes")
        /\ Greatest(last.stats.topCustomersByTime, CustomerTotals, "total_minutes", 5)
        /\ Len(last.stats.topProjectsByTime) <= 5
        /\ Descending(last.stats.topProjectsByTime, "total_minutes")
        /\ Greatest(last.stats.topProjectsByTime, ProjectTotals, "total_minutes", 5)

\* more than 5 customers of the organization have time this month, one of
\* them in several entries; another user has time for one of them and the
\* asked user has time for a customer of the other organization
C19_Witness ==
    /\ Asked(1)
    /\ last.input.organization_id = 1
    /\ Cardinality(CustomerTotals) > 5
    /\ Len(last.stats.topCustomersByTime) = 5
    /\ Cardinality(MonthOfCustomer(last.stats.topCustomersByTime[1].customer_id)) > 1
    /\ \E e \in Completed(2) : e.customer_id = Some(1)
    /\ \E e \in Within(1, FirstOfMonth), c \in customers :
          e.customer_id = Some(c.id) /\ c.organization_id = 2

\* ------------------------------------------------------------ subscriptions
\* the limits of the plans
PlanCustomers(plan) ==
    CASE plan = "free" -> 3 [] plan = "pro" -> 50 [] plan = "enterprise" -> 0 - 1
PlanProjects(plan) ==
    CASE plan = "free" -> 3 [] plan = "pro" -> 100 [] plan = "enterprise" -> 0 - 1

\* C20: createSubscription for an existing user inserts exactly one
\* Subscription, active, with max_customers and max_projects the caller's
\* overrides when given and otherwise the plan's defaults (free 3 and 3, pro
\* 50 and 100, enterprise -1 and -1) and expires_at the given value or null;
\* for a user that does not exist it fails and inserts nothing.
C20_CreateSubscription ==
    last.op = "createSubscription" =>
        IF last.input.user_id \in Ids(pre.users)
        THEN /\ last.outcome = "ok"
             /\ pre.subscriptions \subseteq subscriptions
             /\ [pre EXCEPT !.subscriptions = subscriptions] = Snapshot
             /\ \E s \in subscriptions :
                  /\ subscriptions \ pre.subscriptions = {s}
                  /\ s.id = last.id
                  /\ s.user_id = last.input.user_id
                  /\ s.plan = last.input.plan
                  /\ s.status = "active"
                  /\ s.max_customers = IF Has(last.input, "max_customers")
                                       THEN last.input.max_customers
                                       ELSE PlanCustomers(last.input.plan)
                  /\ s.max_projects = IF Has(last.input, "max_projects")
                                      THEN last.input.max_projects
                                      ELSE PlanProjects(last.input.plan)
                  /\ s.expires_at = IF Has(last.input, "expires_at")
                                    THEN last.input.expires_at ELSE Null
        ELSE /\ last.outcome = "user_not_found"
             /\ NothingWritten

\* a pro subscription created with an override of 0 customers and the plan's
\* default for projects, next to the subscription of the sign-up
C20_Witness ==
    /\ last.op = "createSubscription"
    /\ last.outcome = "ok"
    /\ last.input.plan = "pro"
    /\ Has(last.input, "max_customers")
    /\ ~Has(last.input, "max_projects")
    /\ Row(subscriptions, last.id).max_customers = 0
    /\ Row(subscriptions, last.id).max_projects = 100
    /\ Cardinality(subscriptions) = 2

\* the filters as stated: a filter the input carries restricts, whatever its
\* value; a tag list restricts to the entries sharing a tag with it
Satisfies(e, input) ==
    /\ Has(input, "user_id") => e.user_id = input.user_id
    /\ Has(input, "customer_id") => e.customer_id = Some(input.customer_id)
    /\ Has(input, "project_id") => e.project_id = Some(input.project_id)
    /\ Has(input, "start_date") => e.start_time >= input.start_date
    /\ Has(input, "end_date") => e.start_time <= input.end_date
    /\ (Has(input, "tags") /\ input.tags # <<>>)
            => Range(e.tags) \cap Range(input.tags) # {}

Ascending(seq, f) == \A i \in 1 .. Len(seq) - 1 : seq[i][f] <= seq[i + 1][f]

\* C21: getTimeEntries returns exactly the entries that satisfy every filter
\* the input carries (user, customer and project by equality, start_time
\* between start_date and end_date, a tag in common with the tag list; an
\* omitted filter or an empty tag list restricts nothing), each once, ordered
\* by start_time.
C21_FiltersExact ==
    last.op = "getTimeEntries" =>
        /\ last.outcome = "ok"
        /\ Range(last.rows) = {e \in timeEntries : Satisfies(e, last.input)}
        /\ Len(last.rows) = Cardinality(Range(last.rows))
        /\ Ascending(last.rows, "start_time")

\* the subscription rows user u might have instead: none, or one of either
\* status with limits reached or far away
OtherSubscriptions(u) ==
    {{}} \cup {{row} : row \in
        [id : {MaxSubscriptions + 1}, user_id : {u}, plan : {"free"},
         status : {"active", "cancelled"}, max_customers : {0, ProMaxCustomers},
         max_projects : {0, ProMaxProjects}, expires_at : {Null},
         created_at : {0}, updated_at : {0}]}

\* the tables t with the subscription rows of user u replaced
WithSubscriptions(t, u, rows) ==
    [t EXCEPT !.subscriptions = {s \in @ : s.user_id # u} \cup rows]

Outcomes(t, op, input, createdBy) ==
    IF op = "createCustomer" THEN CreateCustomerOutcomes(t, input, createdBy)
    ELSE CreateProjectOutcomes(t, input, createdBy)

\* the last request was a create for an existing organization by a user who
\* does not own it
ByNonOwner ==
    /\ last.op \in {"createCustomer", "createProject"}
    /\ last.input.organization_id \in Ids(pre.organizations)
    /\ Row(pre.organizations, last.input.organization_id).owner_id # last.by

\* C22: a createCustomer or createProject by a user who is not the
\* organization's owner ends the same way whatever subscription rows that user
\* has: on the tables it found and on the same tables with the user's
\* subscription absent or of any status and limits, the possible results are
\* the same, and the result given is one of them.
C22_OwnerSubscriptionGoverns ==
    ByNonOwner =>
        /\ last.outcome \in Outcomes(pre, last.op, last.input, last.by)
        /\ \A rows \in OtherSubscriptions(last.by) :
              Outcomes(WithSubscriptions(pre, last.by, rows), last.op, last.input, last.by)
                  = Outcomes(pre, last.op, last.input, last.by)

\* a non-owner whose own subscription is cancelled creates a customer under
\* the owner's active one
C22_Witness ==
    /\ ByNonOwner
    /\ last.outcome = "ok"
    /\ \E s \in pre.subscriptions : s.user_id = last.by /\ s.status = "cancelled"

\* the last createProject found its organization and named a customer that
\* has no row / a customer of another organization
CustomerAbsent ==
    /\ last.op = "createProject"
    /\ last.input.organization_id \in Ids(pre.organizations)
    /\ last.input.customer_id \notin Ids(pre.customers)

CustomerElsewhere ==
    /\ last.op = "createProject"
    /\ last.input.organization_id \in Ids(pre.organizations)
    /\ last.input.customer_id \in Ids(pre.customers)
    /\ Row(pre.customers, last.input.customer_id).organization_id
            # last.input.organization_id

\* the same request naming a customer id that no row has
ForAbsentCustomer(input) == [input EXCEPT !.customer_id = MaxCustomers + 1]

\* C23: createProject reports a different error for a customer id without a
\* row than for a customer of another organization, and inserts no project in
\* either case.
C23_DistinctCustomerErrors ==
    /\ (CustomerAbsent \/ CustomerElsewhere) =>
            last.outcome \notin {"ok", "none"} /\ NothingWritten
    /\ CustomerElsewhere =>
            last.outcome \notin
                CreateProjectOutcomes(pre, ForAbsentCustomer(last.input), last.by)

\* the calls in flight are creates of one kind for one organization
AllCalls(op) == calls # <<>> /\ \A i \in DOMAIN calls : calls[i].op = op

AllDone == \A i \in DOMAIN calls : calls[i].pc = "done"

\* the limit of the one subscription of the organization's owner
RaceLimit(column) == (CHOOSE s \in subscriptions : s.user_id = 1)[column]

\* C24: n createCustomer (createProject) requests for one organization running
\* concurrently, under a limit L >= 0 and starting from at most L rows, never
\* leave the organization with more than L + (n - 1) customers (projects).
C24_OvershootBounded ==
    /\ AllCalls("createCustomer") =>
            CountCustomers(1) <= RaceLimit("max_customers") + (Len(calls) - 1)
    /\ AllCalls("createProject") =>
            CountProjects(1) <= RaceLimit("max_projects") + (Len(calls) - 1)

\* all of three requests read the count before any inserted, and the
\* organization ends MaxCalls - 1 over its limit
C24_Witness ==
    /\ AllCalls("createCustomer")
    /\ AllDone
    /\ Len(calls) > 1
    /\ CountCustomers(1) = RaceLimit("max_customers") + (Len(calls) - 1)
    /\ CountCustomers(1) > RaceLimit("max_customers")

\* C25: the user, the default organization and the default subscription of a
\* sign-up are stored as one unit: in every state, between the writes of
\* createUser and after one of them failed included, a user is stored exactly
\* when an organization it owns and a subscription of its own are stored.
C25_SignUpUnit ==
    /\ \A u \in users :
          /\ \E o \in organizations : o.owner_id = u.id
          /\ \E sub \in subscriptions : sub.user_id = u.id
    /\ \A o \in organizations : o.owner_id \in Ids(users)
    /\ \A sub \in subscriptions : sub.user_id \in Ids(users)

\* the projects customer 1 had when deleteCustomer(1) started or got from the
\* concurrent createProject
BelongedToCustomer ==
    {1} \cup {calls[i].id : i \in {j \in DOMAIN calls : /\ calls[j].op = "createProject"
                                                          /\ calls[j].outcome = "ok"}}

DeleteReturnedTrue ==
    /\ calls # <<>>
    /\ calls[1].op = "deleteCustomer"
    /\ AllDone
    /\ calls[1].outcome = "true"

\* C26: when deleteCustomer(c) ran interleaved with a createProject for c or a
\* createTimeEntry naming c or one of its projects and returned true, then
\* with both requests completed no project and no time entry references c or
\* a project that belonged to c.
C26_NothingSurvives ==
    DeleteReturnedTrue =>
        /\ \A p \in projects : p.customer_id # calls[1].input.id
        /\ \A e \in timeEntries :
              /\ e.customer_id # Some(calls[1].input.id)
              /\ \A projectId \in BelongedToCustomer : e.project_id # Some(projectId)

\* the concurrent createProject inserted its project after deleteCustomer had
\* selected the customer's projects, and the delete still returned true
C26_Witness ==
    /\ DeleteReturnedTrue
    /\ calls[2].op = "createProject"
    /\ calls[2].outcome = "ok"
    /\ calls[2].id \notin calls[1].got.projectIds
    /\ calls[2].id \notin Ids(projects)

\* C27: after two concurrent updateTimeEntry calls on one entry have both
\* completed, the entry's duration_minutes is floor((end_time - start_time) /
\* 60000) of its stored times, or null when its end_time is null.
C27_DurationAfterRace ==
    (AllCalls("updateTimeEntry") /\ AllDone) =>
        \A e \in timeEntries :
            e.duration_minutes = IF e.end_time = Null THEN Null
                                 ELSE Some(DurationMinutes(e.start_time, Val(e.end_time)))

\* C28: in every state reached through createUser, createSubscription and
\* updateSubscription each user has at most one subscription row, so the row
\* the limit checks and getSubscription read is determined by the user id.
C28_OneSubscriptionPerUser ==
    \A u \in users : Cardinality({sub \in subscriptions : sub.user_id = u.id}) <= 1

\* the lists another getDashboardStats call with the same arguments may
\* return from the same rows at the same time
TopCustomersAgain ==
    Limit(OrderedDesc(TopCustomerRows(last.input.user_id, last.input.organization_id),
                      "total_minutes"), TopLimit)

TopProjectsAgain ==
    Limit(OrderedDesc(TopProjectRows(last.input.user_id, last.input.organization_id),
                      "total_minutes"), TopLimit)

\* C29: for fixed stored rows and a fixed current time every call of
\* getDashboardStats returns the same topCustomersByTime and the same
\* topProjectsByTime, members and order, also when totals are equal.
C29_TopDeterministic ==
    last.op = "getDashboardStats" =>
        /\ \A again \in TopCustomersAgain : again = last.stats.topCustomersByTime
        /\ \A again \in TopProjectsAgain : again = last.stats.topProjectsByTime

\* C30: with no stored duration negative, getDashboardStats returns a
\* totalTimeToday that exceeds neither totalTimeThisWeek nor
\* totalTimeThisMonth, at every current time.
C30_TodayWithinWeekAndMonth ==
    (/\ last.op = "getDashboardStats"
     /\ \A e \in timeEntries : e.duration_minutes # Null => Val(e.duration_minutes) >= 0)
        => /\ last.stats.totalTimeToday <= last.stats.totalTimeThisWeek
           /\ last.stats.totalTimeToday <= last.stats.totalTimeThisMonth

\* time was tracked today, more in the week, more still in the month
C30_Witness ==
    /\ last.op = "getDashboardStats"
    /\ 0 < last.stats.totalTimeToday
    /\ last.stats.totalTimeToday < last.stats.totalTimeThisWeek
    /\ last.stats.totalTimeThisWeek < last.stats.totalTimeThisMonth

====
